---- MODULE Spec2Model ----
(***************************************************************************)
(* Book Lamp: the metadata lookup / merge / cache pipeline                 *)
(* (book_lamp/services/book_lookup.py, book_lamp/services/cache.py).       *)
(*                                                                         *)
(* Python values are modelled as strings: NONE is Python's None, ""  is    *)
(* the empty string, " " a whitespace-only string, ZERO the integer 0;     *)
(* every other string is itself.  A dict is a function whose DOMAIN is     *)
(* its key set.  An Optional[dict] is the empty sequence (None) or a       *)
(* one-element sequence holding the dict.                                  *)
(***************************************************************************)
EXTENDS Integers, Sequences, FiniteSets, TLC

VARIABLES
    \* ---- _merge_metadata exercised on its own
    mTarget,      \* the target dict (mutated in place)
    mSource,      \* the source argument (Optional[dict])
    mOld,         \* the target as it was when the call was made
    mReturned,    \* Optional[dict]: what the call returned
    \* ---- cache.py
    rows,         \* the SQLite table: a set of rows [key, value, expiry]
    now,          \* int(time.time())
    lastOp,       \* the last cache operation and, for get, its result
    hist,         \* per key: the latest SQLiteCache.set and any later delete
    cacheInstance,\* the module global _cache_instance: "None" or "SQLite"
    testMode,     \* os.environ.get("TEST_MODE"): "unset", "0" or "1"
    \* ---- lookup_book_by_isbn13
    lk,           \* the frame of the current (or last) call
    rows0,        \* the cache table as it was when that call was made
    nLookups,     \* calls made so far
    \* ---- enhance_books_batch
    books,        \* the list passed in (updated in place)
    books0,       \* the list as it was passed in
    epc,          \* "init", "parallel" (the pool is running) or "returned"
    candidates,   \* the indices of the candidate books, in order
    batch_results,\* normalized ISBN -> Optional record, shared by the tasks
    batch0,       \* batch_results as lookup_books_batch returned it
    task,         \* per candidate: the locals of its process_book call
    updated_count,\* the return value
    max_workers,  \* the size of the pool
    ghost,        \* bulk lookups made, tasks that called the deep lookup,
                  \* tasks the bulk lookup had no data for, writes to records
    \* ---- job_queue.py
    jobs,         \* JobQueue.jobs: job id -> Job
    jthread,      \* per job of submit_job: where its run_task thread is
    submitted,    \* the ids submit_job has returned, in order
    \* ---- the storage backend and the routes of app.py
    storage,      \* the MockStorage or the spreadsheet of GoogleSheetsStorage
    resp,         \* the last request served and its response
    imp           \* the last bulk_import call made on the backend directly

mergeVars == <<mTarget, mSource, mOld, mReturned>>
cacheVars == <<rows, now, lastOp, hist>>
lookupVars == <<cacheInstance, testMode, lk, rows0, nLookups>>
enhanceVars == <<books, books0, epc, candidates, batch_results, batch0, task,
                 updated_count, max_workers, ghost>>
jobVars == <<jobs, jthread, submitted>>
\* the variables of the parts modelled after enhance_books_batch
storageVars == <<storage, resp, imp>>
restVars == <<jobVars, storageVars>>
vars == <<mergeVars, cacheVars, lookupVars, enhanceVars, restVars>>
\* what enhance_books_batch leaves alone
enhanceFrame == <<mergeVars, lastOp, hist, lk, rows0, nLookups, restVars>>
\* what a lookup leaves alone besides its own variables and the table
lookupFrame == <<mergeVars, now, lastOp, hist, enhanceVars, restVars>>

----------------------------------------------------------------------------
(* Python values *)

NONE == "None"
ZERO == "int:0"

\* bool(v) for the values of the model
Truthy(v) == v \notin {NONE, "", ZERO}

\* isinstance(v, str) and not v.strip()
IsBlankStr(v) == v \in {"", " "}

\* Optional values
Nothing == <<>>
Some(x) == <<x>>
IsSome(o) == Len(o) = 1
The(o) == o[1]

\* dict.get(k) with the default None
DictGet(d, k) == IF k \in DOMAIN d THEN d[k] ELSE NONE

\* d[k] = v
DictPut(d, k, v) == [x \in (DOMAIN d) \cup {k} |-> IF x = k THEN v ELSE d[x]]

EmptyDict == [x \in {} |-> NONE]

\* every dict with keys among K and values among V
DictsOver(K, V) == UNION {[D -> V] : D \in SUBSET K}

----------------------------------------------------------------------------
(* The parts of the state a specification does not exercise stay as
   they are before anything has run. *)

IdleMerge ==
    /\ mTarget = EmptyDict
    /\ mSource = Nothing
    /\ mOld = EmptyDict
    /\ mReturned = Nothing

IdleCache ==
    /\ rows = {}
    /\ now = 0
    /\ lastOp = [op |-> "none"]
    /\ hist = EmptyDict

IdleFrame ==
    [pc |-> "idle", clean_isbn |-> <<>>, title |-> NONE, author |-> NONE,
     best |-> EmptyDict, cache |-> "none", cacheEnv |-> "unset", ret |-> Nothing,
     raised |-> FALSE, hit |-> FALSE, calls |-> <<>>, anyData |-> FALSE,
     coverAt |-> 0]

IdleEnhance ==
    /\ books = <<>>
    /\ books0 = <<>>
    /\ epc = "init"
    /\ candidates = <<>>
    /\ batch_results = EmptyDict
    /\ batch0 = EmptyDict
    /\ task = <<>>
    /\ updated_count = 0
    /\ max_workers = 1
    /\ ghost = [bulk |-> 0, deep |-> {}, missed |-> {}, writers |-> {}, raised |-> {}]

IdleJobs ==
    /\ jobs = EmptyDict
    /\ jthread = EmptyDict
    /\ submitted = <<>>

\* MockStorage.__init__
NewMockStorage ==
    [backend |-> "mock", books |-> <<>>, reading_records |-> <<>>,
     next_book_id |-> 1, next_record_id |-> 1, authorised |-> FALSE]

NoResponse == [route |-> "none"]
NoImport == [n |-> 0]

IdleStorage ==
    /\ storage = NewMockStorage
    /\ resp = NoResponse
    /\ imp = NoImport

IdleRest == IdleJobs /\ IdleStorage

IdleLookup ==
    /\ lk = IdleFrame
    /\ rows0 = {}
    /\ nLookups = 0
    /\ cacheInstance = "None"
    /\ testMode = "unset"

----------------------------------------------------------------------------
(* _merge_metadata *)

\* A merge that forgets the "if not target.get(k)" test.
MergeMetadataOverwrite(target, source) ==
    IF ~IsSome(source) \/ DOMAIN The(source) = {} THEN target
    ELSE LET s == The(source)
             fill == {k \in DOMAIN s : Truthy(s[k]) /\ ~IsBlankStr(s[k])}
         IN  [k \in (DOMAIN target) \cup fill |->
                 IF k \in fill THEN s[k] ELSE target[k]]

\* _merge_metadata(target, source): the dict target is after the call
\* (the same object is returned).
MergeMetadata(target, source) ==
    IF ~IsSome(source) \/ DOMAIN The(source) = {} THEN target
    ELSE LET s == The(source)
             fill == {k \in DOMAIN s :
                         /\ Truthy(s[k]) /\ ~IsBlankStr(s[k])
                         /\ ~Truthy(DictGet(target, k))}
         IN  [k \in (DOMAIN target) \cup fill |->
                 IF k \in fill THEN s[k] ELSE target[k]]

\* bounds of the stand-alone merge
NumMergeKeys == 2
MergeKeyNames == <<"title", "thumbnail_url", "page_count", "author">>
MergeKeys == {MergeKeyNames[i] : i \in 1..NumMergeKeys}
TargetValues == {NONE, "", " ", ZERO, "old"}
SourceValues == {NONE, "", " ", ZERO, "new"}

InitMerge ==
    /\ mTarget \in DictsOver(MergeKeys, TargetValues)
    /\ mSource \in {Nothing} \cup {Some(d) : d \in DictsOver(MergeKeys, SourceValues)}
    /\ mOld = mTarget
    /\ mReturned = Nothing

\* one call _merge_metadata(mTarget, mSource)
Merge ==
    /\ ~IsSome(mReturned)
    /\ mOld' = mTarget
    /\ mTarget' = MergeMetadata(mTarget, mSource)
    /\ mReturned' = Some(mTarget')
    /\ UNCHANGED <<mSource, cacheVars, lookupVars, enhanceVars, restVars>>

----------------------------------------------------------------------------
(* cache.py *)

DefaultTtl == 2592000

\* bounds of the cache model
MaxTime == 2
MaxTtl == 2

CacheKeys == {"isbn:9780306406157", "author_books:jane austen"}
CacheValues == {[title |-> "Emma"], [title |-> "Persuasion"]}
\* the ttl argument of set: None, or a number of seconds
TtlArgs == {Nothing} \cup {Some(n) : n \in 0..MaxTtl}

\* json.dumps / json.loads: the stored text wraps the value it encodes
JsonDumps(v) == [json |-> v]
JsonLoads(text) == text.json

\* "SELECT value FROM cache WHERE key = ? AND expiry >= ?": an off-by-one
SqlSelectInclusive(rs, key, t) == {r \in rs : r.key = key /\ r.expiry >= t}

\* "SELECT value FROM cache WHERE key = ? AND expiry > ?"
SqlSelect(rs, key, t) == {r \in rs : r.key = key /\ r.expiry > t}

\* SQLiteCache.get(key) at time t: Optional value
SQLiteGet(rs, key, t) ==
    LET found == SqlSelect(rs, key, t)
    IN  IF found = {} THEN Nothing
        ELSE Some(JsonLoads((CHOOSE r \in found : TRUE).value))

\* a plain INSERT that keeps the old row
SqlInsertKeeping(rs, row) == rs \cup {row}

\* "INSERT OR REPLACE INTO cache": key is the PRIMARY KEY
SqlInsertOrReplace(rs, row) == {r \in rs : r.key # row.key} \cup {row}

\* SQLiteCache.set(key, value, ttl) at time t: the table afterwards
SQLiteSet(rs, key, value, ttl, t) ==
    LET effective == IF IsSome(ttl) THEN The(ttl) ELSE DefaultTtl
    IN  SqlInsertOrReplace(rs, [key |-> key, value |-> JsonDumps(value),
                                expiry |-> t + effective])

\* SQLiteCache.delete(key)
SQLiteDelete(rs, key) == {r \in rs : r.key # key}

\* a cleanup that also removes the entries about to expire
SQLiteCleanupEager(rs, t) == {r \in rs : ~(r.expiry <= t + 1)}

\* SQLiteCache.cleanup() at time t
SQLiteCleanup(rs, t) == {r \in rs : ~(r.expiry <= t)}

InitCache ==
    /\ rows = {}
    /\ now = 0
    /\ lastOp = [op |-> "none"]
    /\ hist = [k \in CacheKeys |-> Nothing]

\* time.time() advances
Tick ==
    /\ now < MaxTime
    /\ now' = now + 1
    /\ UNCHANGED <<rows, lastOp, hist, mergeVars, lookupVars, enhanceVars, restVars>>

\* SQLiteCache.get(key)
CacheGet(key) ==
    /\ lastOp' = [op |-> "get", key |-> key, t |-> now,
                  result |-> SQLiteGet(rows, key, now)]
    /\ UNCHANGED <<rows, now, hist, mergeVars, lookupVars, enhanceVars, restVars>>

\* SQLiteCache.set(key, value, ttl)
CacheSet(key, value, ttl) ==
    /\ lastOp' = [op |-> "set", key |-> key, t |-> now,
                  value |-> value, ttl |-> ttl]
    /\ rows' = SQLiteSet(rows, key, value, ttl, now)
    /\ hist' = [hist EXCEPT ![key] =
                   Some([v |-> value, s |-> now, ttl |-> ttl,
                         deleted |-> FALSE,
                         replaced |-> \E r \in rows :
                             r.key = key /\ JsonLoads(r.value) # value])]
    /\ UNCHANGED <<now, mergeVars, lookupVars, enhanceVars, restVars>>

\* SQLiteCache.delete(key)
CacheDelete(key) ==
    /\ lastOp' = [op |-> "delete", key |-> key, t |-> now]
    /\ rows' = SQLiteDelete(rows, key)
    /\ hist' = [hist EXCEPT ![key] =
                   IF IsSome(@) THEN Some([The(@) EXCEPT !.deleted = TRUE])
                   ELSE @]
    /\ UNCHANGED <<now, mergeVars, lookupVars, enhanceVars, restVars>>

\* SQLiteCache.cleanup()
CacheCleanup ==
    /\ lastOp' = [op |-> "cleanup", t |-> now]
    /\ rows' = SQLiteCleanup(rows, now)
    /\ UNCHANGED <<now, hist, mergeVars, lookupVars, enhanceVars, restVars>>

NextCache ==
    \/ Tick
    \/ \E k \in CacheKeys : CacheGet(k)
    \/ \E k \in CacheKeys, v \in CacheValues, ttl \in TtlArgs : CacheSet(k, v, ttl)
    \/ \E k \in CacheKeys : CacheDelete(k)
    \/ CacheCleanup

InitSpecCache == InitCache /\ IdleMerge /\ IdleLookup /\ IdleEnhance /\ IdleRest

SpecCache == InitSpecCache /\ [][NextCache]_vars

\* what the claim C5 expects of a get(k) at time t, from the call history
ExpectedGet(k, t) ==
    LET h == hist[k]
    IN  IF /\ IsSome(h)
           /\ ~The(h).deleted
           /\ t < The(h).s + (IF IsSome(The(h).ttl) THEN The(The(h).ttl) ELSE DefaultTtl)
        THEN Some(The(h).v)
        ELSE Nothing

C29_CleanupRemovesExactlyExpired ==
    [][(lastOp'.op = "cleanup" /\ now' = now) =>
          /\ rows' \subseteq rows
          /\ \A r \in rows :
                (r \notin rows') <=> ~IsSome(SQLiteGet({r}, r.key, now))
          /\ \A k \in CacheKeys, t \in now..(MaxTime + MaxTtl) :
                SQLiteGet(rows', k, t) = SQLiteGet(rows, k, t)]_vars

\* after a cleanup the entry of a key that was set and never deleted is
\* gone, while the entry of another key is still there
C29_Witness ==
    /\ lastOp.op = "cleanup"
    /\ rows # {}
    /\ \E k \in CacheKeys :
          /\ IsSome(hist[k])
          /\ ~(The(hist[k]).deleted)
          /\ ~(\E r \in rows : r.key = k)

----------------------------------------------------------------------------
(* utils/books.py: ISBN strings are sequences of characters *)

DigitChars == <<"0", "1", "2", "3", "4", "5", "6", "7", "8", "9">>
IsDigitChar(c) == \E i \in 1..10 : DigitChars[i] = c
CharDigit(c) == (CHOOSE i \in 1..10 : DigitChars[i] = c) - 1
DigitChar(n) == DigitChars[n + 1]

Isbn978 == <<"9", "7", "8", "0", "3", "0", "6", "4", "0", "6", "1", "5", "7">>
Isbn978Hyphens == <<"9", "7", "8", "-", "0", "3", "0", "6", "4", "0", "6", "1", "5", "7">>
Isbn979 == <<"9", "7", "9", "1", "0", "9", "0", "6", "3", "6", "0", "7", "1">>

\* the characters of a normalized ISBN as one string value (the model's
\* records hold strings)
IsbnText(clean) ==
    CASE clean = Isbn978 -> "9780306406157"
      [] clean = Isbn979 -> "9791090636071"
      [] OTHER -> ""

\* normalize_isbn(isbn)
NormalizeIsbn(isbn) ==
    IF Len(isbn) = 0 THEN <<>>
    ELSE LET isSep(c) == c \in {"-", " "}
             notSep(c) == ~isSep(c)
             clean == SelectSeq(isbn, notSep)
             has_x == Len(clean) > 0 /\ clean[Len(clean)] \in {"x", "X"}
             digits == SelectSeq(clean, IsDigitChar)
         IN  IF has_x THEN Append(digits, "X") ELSE digits

\* isbn13_to_isbn10(isbn13): Optional ISBN-10
Isbn13ToIsbn10(isbn13) ==
    LET clean == NormalizeIsbn(isbn13)
    IN  IF Len(clean) # 13 THEN Nothing
        ELSE IF SubSeq(clean, 1, 3) = <<"9", "7", "8">>
        THEN LET core == SubSeq(clean, 4, 12)
                 Sum[i \in 0..9] ==
                     IF i = 0 THEN 0
                     ELSE Sum[i - 1] + CharDigit(core[i]) * (10 - (i - 1))
                 check_digit == 11 - (Sum[9] % 11)
                 check_char == IF check_digit = 10 THEN "X"
                               ELSE IF check_digit = 11 THEN "0"
                               ELSE DigitChar(check_digit)
             IN  Some(Append(core, check_char))
        ELSE IF SubSeq(clean, 1, 4) = <<"9", "7", "9", "8">>
        THEN Some(SubSeq(clean, 4, 13))
        ELSE Nothing

----------------------------------------------------------------------------
(* book_lookup.py: the source adapters.  An adapter takes the outcome of
   its HTTP exchange and either raises or returns an Optional value. *)

Ret(v) == [raised |-> FALSE, value |-> v]
Raise == [raised |-> TRUE, value |-> Nothing]

\* the twelve keys of a parsed Open Library record
MetadataKeys == {"title", "author", "publish_date", "thumbnail_url", "cover_url",
                 "publisher", "description", "dewey_decimal", "page_count",
                 "language", "physical_format", "edition"}

\* a or b, Python's "or" on values
Or(a, b) == IF Truthy(a) THEN a ELSE b

\* a JSON array entry: an object with a name, or something that is no object
Obj(name) == [obj |-> TRUE, name |-> name]
NotObj == [obj |-> FALSE, name |-> NONE]

\* _parse_open_library_data(data)
ParseOpenLibraryData(data) ==
    IF \E i \in 1..Len(data.authors) : ~data.authors[i].obj
    THEN Raise      \* a.get("name") on an entry that is not a dict
    ELSE IF Len(data.languages) > 0 /\ ~data.languages[1].obj
    THEN Raise      \* languages[0].get("name")
    ELSE
    LET named == SelectSeq(data.authors, LAMBDA a : Truthy(a.name))
        author_name == IF Len(named) > 0 THEN named[1].name ELSE NONE
        language == IF Len(data.languages) > 0 THEN data.languages[1].name ELSE NONE
        cover == IF IsSome(data.cover) THEN The(data.cover) ELSE EmptyDict
        thumbnail_url == Or(DictGet(cover, "medium"), DictGet(cover, "small"))
        cover_url == Or(DictGet(cover, "large"), DictGet(cover, "medium"))
    IN  Ret(Some([k \in MetadataKeys |->
            CASE k = "title" -> data.title
              [] k = "author" -> author_name
              [] k = "thumbnail_url" -> thumbnail_url
              [] k = "cover_url" -> cover_url
              [] k = "publisher" -> data.publisher
              [] k = "publish_date" -> data.publish_date
              [] k = "language" -> language
              [] OTHER -> NONE]))

\* _lookup_open_library(isbn13)
LookupOpenLibrary(http) ==
    IF http.kind \in {"conn_error", "timeout", "status_error", "not_json"}
    THEN Ret(Nothing)                  \* caught by the try block
    ELSE IF http.kind = "json_scalar"
    THEN Raise                         \* "key not in payload" on null or a number
    ELSE IF ~IsSome(http.entry)
    THEN Ret(Nothing)                  \* the payload has no entry for the ISBN
    ELSE ParseOpenLibraryData(The(http.entry))

OpenLibraryEntries ==
    [title : {NONE, "OL Title"},
     authors : {<<>>, <<Obj("OL Author")>>, <<NotObj>>},
     languages : {<<>>, <<Obj("English")>>, <<NotObj>>},
     publisher : {NONE, "OL Publisher"},
     publish_date : {NONE},
     cover : {Nothing, Some([medium |-> "ol-M.jpg", large |-> "ol-L.jpg"]),
              Some([small |-> "ol-S.jpg"])}]

OpenLibraryHttp ==
    {[kind |-> k, entry |-> Nothing] :
        k \in {"conn_error", "timeout", "status_error", "not_json", "json_scalar",
               "json_object"}}
    \cup {[kind |-> "json_object", entry |-> Some(e)] : e \in OpenLibraryEntries}

\* _parse_google_books_item(item); imageLinks that is no object raises
ParseGoogleBooksItem(item) ==
    IF item.bad_shape THEN Raise
    ELSE Ret(Some([title |-> item.title, author |-> item.author,
                   publish_date |-> NONE, thumbnail_url |-> item.thumbnail,
                   cover_url |-> item.thumbnail, publisher |-> NONE,
                   description |-> item.description, page_count |-> NONE,
                   language |-> NONE, physical_format |-> NONE]))

\* _lookup_google_books(isbn13): the whole body is inside the try block
LookupGoogleBooks(http) ==
    IF http.kind # "json_object" \/ Len(http.items) = 0 THEN Ret(Nothing)
    ELSE LET r == ParseGoogleBooksItem(http.items[1])
         IN  IF r.raised THEN Ret(Nothing) ELSE r

\* html.unescape(info.get("title", "")) is "" when the title is missing
GoogleItems ==
    [title : {"", "GB Title"}, author : {NONE, "GB Author"},
     thumbnail : {NONE, "gb-thumb"}, description : {NONE, "GB Description"},
     bad_shape : {FALSE}]
    \cup {[title |-> "", author |-> NONE, thumbnail |-> NONE, description |-> NONE,
           bad_shape |-> TRUE]}

GoogleBooksHttp ==
    {[kind |-> k, items |-> <<>>] : k \in {"conn_error", "not_json", "json_object"}}
    \cup {[kind |-> "json_object", items |-> <<i>>] : i \in GoogleItems}

\* _lookup_open_library_cover_direct(isbn13): Optional URL
LookupOpenLibraryCoverDirect(http) ==
    IF http = "image_200" THEN Ret(Some("olcover-M.jpg")) ELSE Ret(Nothing)

\* _lookup_penguin_cover(isbn13): Optional URL
LookupPenguinCover(http) ==
    IF http \in {"image_200", "image_200_no_length"} THEN Ret(Some("penguin.jpg"))
    ELSE Ret(Nothing)

CoverHttp == {"conn_error", "status_404", "not_image_200", "image_200"}
PenguinHttp == CoverHttp \cup {"image_200_no_length", "image_200_tiny", "bad_length"}

\* _lookup_amazon_cover(isbn13): Optional URL; no request without an ISBN-10
LookupAmazonCover(isbn13, http) ==
    IF ~IsSome(Isbn13ToIsbn10(isbn13)) THEN Ret(Nothing)
    ELSE IF http \in {"big_200", "no_length_big_body"} THEN Ret(Some("amazon.jpg"))
    ELSE Ret(Nothing)

AmazonHttp == {"conn_error", "status_404", "big_200", "placeholder_200",
               "no_length_big_body", "no_length_small_body", "bad_length"}

\* _lookup_open_library_search(title, author): the first doc with a cover_i,
\* from the structured query or, when that has no docs, the general one
LookupOpenLibrarySearch(http) ==
    IF http.kind # "json_object" THEN Ret(Nothing)
    ELSE LET docs == IF Len(http.docs) > 0 THEN http.docs ELSE http.fallback_docs
             covered == SelectSeq(docs, LAMBDA d : Truthy(d.cover_i))
         IN  IF Len(covered) = 0 THEN Ret(Nothing)
             ELSE Ret(Some([title |-> covered[1].title, author |-> covered[1].author,
                            thumbnail_url |-> "olsearch-M.jpg",
                            cover_url |-> "olsearch-L.jpg",
                            publish_date |-> NONE, publisher |-> NONE]))

SearchDocs == [title : {"Search Title"}, author : {NONE, "Search Author"},
               cover_i : {NONE, "12345"}]

OpenLibrarySearchHttp ==
    {[kind |-> k, docs |-> <<>>, fallback_docs |-> <<>>] :
        k \in {"conn_error", "not_json", "json_object"}}
    \cup {[kind |-> "json_object", docs |-> <<d>>, fallback_docs |-> <<>>] :
            d \in SearchDocs}
    \cup {[kind |-> "json_object", docs |-> <<>>, fallback_docs |-> <<d>>] :
            d \in SearchDocs}

\* _lookup_google_books_search(title, author): the first item with image
\* links, else the first item
LookupGoogleBooksSearch(http) ==
    IF http.kind # "json_object" \/ Len(http.items) = 0 THEN Ret(Nothing)
    ELSE LET withImage == SelectSeq(http.items, LAMBDA i : Truthy(i.thumbnail))
             r == ParseGoogleBooksItem(IF Len(withImage) > 0 THEN withImage[1]
                                       ELSE http.items[1])
         IN  IF r.raised THEN Ret(Nothing) ELSE r

\* _lookup_itunes_search(title, author)
LookupItunesSearch(http) ==
    IF http.kind # "json_object" \/ ~Truthy(http.artworkUrl100) THEN Ret(Nothing)
    ELSE Ret(Some([title |-> http.trackName, author |-> http.artistName,
                   thumbnail_url |-> "itunes-200.jpg",
                   cover_url |-> "itunes-600.jpg"]))

ItunesHttp ==
    {[kind |-> k, artworkUrl100 |-> NONE, trackName |-> NONE, artistName |-> NONE] :
        k \in {"conn_error", "not_json", "json_object"}}
    \cup {[kind |-> "json_object", artworkUrl100 |-> "itunes-100.jpg",
           trackName |-> "iTunes Title", artistName |-> a] :
            a \in {NONE, "iTunes Author"}}

----------------------------------------------------------------------------
(* cache.py: get_cache and the two kinds of cache *)

\* get_cache(): the kind of cache returned
GetCacheKind(instance, env) ==
    IF instance = "None"
    THEN IF env = "1" THEN "NoOp" ELSE "SQLite"
    ELSE instance

\* get_cache(): _cache_instance afterwards
GetCacheInstance(instance, env) ==
    IF instance = "None" /\ env # "1" THEN "SQLite" ELSE instance

\* cache.get(key) on a cache of the given kind (SQLiteCache or NoOpCache)
HandleGet(kind, rs, key, t) ==
    IF kind = "NoOp" THEN Nothing ELSE SQLiteGet(rs, key, t)

\* cache.set(key, value) on a cache of the given kind: the table afterwards
HandleSet(kind, rs, key, value, ttl, t) ==
    IF kind = "NoOp" THEN rs ELSE SQLiteSet(rs, key, value, ttl, t)

----------------------------------------------------------------------------
(* book_lookup.py: lookup_book_by_isbn13, one step per source queried.
   A frame holds the locals of one call:
     pc          the source to query next, or "done"
     clean_isbn  normalize_isbn(isbn13)
     title       the title argument
     best        the record accumulated so far
     cache       the kind of cache get_cache() returned
     ret         the return value, once done
     raised      whether the call ended with an exception
   and, for the claims, "calls" (the sources queried so far, in order),
   "hit" (the call returned from the cache), "anyData" (some source returned
   a record or a URL) and "coverAt" (how many sources had been queried when
   best first held a thumbnail_url, 0 when it does not). *)

CacheKey(clean_isbn) == <<"isbn", clean_isbn>>

\* best.get("cover_url") tested instead of thumbnail_url
HasCoverUrl(b) == Truthy(DictGet(b, "cover_url"))

\* best.get("thumbnail_url")
HasCover(b) == Truthy(DictGet(b, "thumbnail_url"))

\* the search gate without the test for "Unknown"
SearchAllowedAnyTitle(b) == Truthy(DictGet(b, "title"))

\* search_title and search_title != "Unknown"
SearchAllowed(b) ==
    Truthy(DictGet(b, "title")) /\ DictGet(b, "title") # "Unknown"

Out(f, rs) == [f |-> f, rows |-> rs]

\* the call starts: normalize, get_cache(), the cache check, the first best
StartLookup(isbn13, title, author, instance, env, rs, t) ==
    LET clean == NormalizeIsbn(isbn13)
        cache == GetCacheKind(instance, env)
        cached == HandleGet(cache, rs, CacheKey(clean), t)
        hit == /\ IsSome(cached)
               /\ DOMAIN The(cached) # {}
               /\ (Truthy(DictGet(The(cached), "thumbnail_url")) \/ ~Truthy(title))
        b0 == [k \in {"isbn13"} |-> IsbnText(clean)]
        b1 == IF Truthy(title) THEN DictPut(b0, "title", title) ELSE b0
        b2 == IF Truthy(author) THEN DictPut(b1, "author", author) ELSE b1
    IN  [pc |-> IF hit THEN "done" ELSE "open_library",
         clean_isbn |-> clean, title |-> title, author |-> author,
         best |-> IF hit THEN The(cached) ELSE b2,
         cache |-> cache, cacheEnv |-> env,
         ret |-> IF hit THEN cached ELSE Nothing,
         raised |-> FALSE, hit |-> hit, calls |-> <<>>, anyData |-> FALSE,
         coverAt |-> 0]

\* the source "name" answered r and best became b
Queried(f, name, r, b) ==
    [f EXCEPT !.calls = Append(@, name),
              !.anyData = @ \/ IsSome(r.value),
              !.best = b,
              !.coverAt = IF @ = 0 /\ DictGet(b, "thumbnail_url") \notin {NONE, ""}
                          THEN Len(f.calls) + 1 ELSE @]

\* an exception leaves the call
Raised(f, name) ==
    [f EXCEPT !.calls = Append(@, name), !.pc = "done", !.raised = TRUE]

\* cache.set(f"isbn:{clean_isbn}", best); return best
ReturnBest(f, rs, t) ==
    Out([f EXCEPT !.pc = "done", !.ret = Some(f.best)],
        HandleSet(f.cache, rs, CacheKey(f.clean_isbn), f.best, Nothing, t))

\* the end of the function: "if len(best) > 1" cache and return, else None
ReturnWhateverFound(f, rs, t) ==
    IF Cardinality(DOMAIN f.best) > 1 THEN ReturnBest(f, rs, t)
    ELSE Out([f EXCEPT !.pc = "done", !.ret = Nothing], rs)

\* after the cover probes: the search fallbacks, or the end
AfterCoverProbes(f, rs, t) ==
    IF SearchAllowed(f.best) THEN Out([f EXCEPT !.pc = "ol_search"], rs)
    ELSE ReturnWhateverFound(f, rs, t)

\* a metadata source answered r: merge it, then go on to pc "next"
\* (checkCover: the "if best.get('thumbnail_url')" that follows the merge)
MergeStep(f, rs, t, name, r, checkCover, next) ==
    IF r.raised THEN Out(Raised(f, name), rs)
    ELSE LET g == Queried(f, name, r, MergeMetadata(f.best, r.value))
         IN  IF checkCover /\ HasCover(g.best) THEN ReturnBest(g, rs, t)
             ELSE IF next = "end" THEN ReturnWhateverFound(g, rs, t)
             ELSE Out([g EXCEPT !.pc = next], rs)

\* a cover probe answered r: with a URL, set both image fields and return
CoverStep(f, rs, t, name, r, cover_url, next) ==
    IF IsSome(r.value)
    THEN ReturnBest(Queried(f, name, r,
                            DictPut(DictPut(f.best, "thumbnail_url", The(r.value)),
                                    "cover_url", cover_url)), rs, t)
    ELSE LET g == Queried(f, name, r, f.best)
         IN  IF next = "end" THEN AfterCoverProbes(g, rs, t)
             ELSE Out([g EXCEPT !.pc = next], rs)

\* one step of lookup_book_by_isbn13: query the source f.pc names, whose
\* HTTP exchange ends as http
LookupStep(f, rs, t, http) ==
    CASE f.pc = "open_library" ->
            MergeStep(f, rs, t, "open_library", LookupOpenLibrary(http), FALSE,
                      "google_books")
      [] f.pc = "google_books" ->
            MergeStep(f, rs, t, "google_books", LookupGoogleBooks(http), TRUE,
                      "ol_cover")
      [] f.pc = "ol_cover" ->
            CoverStep(f, rs, t, "ol_cover", LookupOpenLibraryCoverDirect(http),
                      "olcover-L.jpg", "penguin")
      [] f.pc = "penguin" ->
            LET r == LookupPenguinCover(http)
            IN  CoverStep(f, rs, t, "penguin", r,
                          IF IsSome(r.value) THEN The(r.value) ELSE NONE, "amazon")
      [] f.pc = "amazon" ->
            LET r == LookupAmazonCover(f.clean_isbn, http)
            IN  CoverStep(f, rs, t, "amazon", r,
                          IF IsSome(r.value) THEN The(r.value) ELSE NONE, "end")
      [] f.pc = "ol_search" ->
            MergeStep(f, rs, t, "ol_search", LookupOpenLibrarySearch(http), TRUE,
                      "gb_search")
      [] f.pc = "gb_search" ->
            MergeStep(f, rs, t, "gb_search", LookupGoogleBooksSearch(http), TRUE,
                      "itunes_search")
      [] f.pc = "itunes_search" ->
            MergeStep(f, rs, t, "itunes_search", LookupItunesSearch(http), TRUE,
                      "end")
      [] OTHER -> Out(f, rs)

\* the sources in the order the claims name them
SourceOrder == <<"open_library", "google_books", "ol_cover", "penguin", "amazon",
                 "ol_search", "gb_search", "itunes_search">>

\* the HTTP outcomes of the source a step queries
HttpOf(pc) ==
    CASE pc = "open_library" -> OpenLibraryHttp
      [] pc = "google_books" -> GoogleBooksHttp
      [] pc = "ol_cover" -> CoverHttp
      [] pc = "penguin" -> PenguinHttp
      [] pc = "amazon" -> AmazonHttp
      [] pc = "ol_search" -> OpenLibrarySearchHttp
      [] pc = "gb_search" -> GoogleBooksHttp
      [] pc = "itunes_search" -> ItunesHttp
      [] OTHER -> {}

\* inputs of the lookup model

LookupIsbns == {Isbn978, Isbn978Hyphens, Isbn979}
TitleArgs == {NONE, "Unknown", "Given Title"}
AuthorArgs == {NONE, "Given Author"}

\* what an earlier lookup (or lookup_books_batch) may have left in the cache
\* for the ISBN 978-0-306-40615-7
CachedBefore ==
    {[isbn13 |-> IsbnText(Isbn978), title |-> "Cached Title",
      thumbnail_url |-> "cached.jpg"],
     [isbn13 |-> IsbnText(Isbn978), title |-> "Cached Title"]}

InitLookup ==
    /\ lk = IdleFrame
    /\ nLookups = 0
    /\ cacheInstance = "None"
    /\ testMode \in {"unset", "1"}
    /\ rows \in {{}} \cup {SQLiteSet({}, CacheKey(Isbn978), v, Nothing, 0) :
                              v \in CachedBefore}
    /\ rows0 = rows
    /\ now = 0
    /\ lastOp = [op |-> "none"]
    /\ hist = EmptyDict

\* os.environ["TEST_MODE"] = v (or its removal), before the lookup
SetTestMode(v) ==
    /\ lk.pc = "idle"
    /\ testMode # v
    /\ testMode' = v
    /\ UNCHANGED <<lk, rows0, nLookups, cacheInstance, rows, lookupFrame>>

\* lookup_book_by_isbn13(isbn13, title, author) is called
CallLookup(isbn13, title, author) ==
    /\ lk.pc = "idle"
    /\ nLookups' = nLookups + 1
    /\ lk' = StartLookup(isbn13, title, author, cacheInstance, testMode, rows, now)
    /\ cacheInstance' = GetCacheInstance(cacheInstance, testMode)
    /\ rows0' = rows
    /\ UNCHANGED <<testMode, rows, lookupFrame>>

\* some other caller (lookup_books_batch, lookup_books_by_author) calls
\* get_cache() before the lookup
OtherGetCache ==
    /\ lk.pc = "idle"
    /\ cacheInstance' = GetCacheInstance(cacheInstance, testMode)
    /\ UNCHANGED <<lk, rows0, nLookups, testMode, rows, lookupFrame>>

\* the running call queries its next source
QuerySource(pc) ==
    /\ lk.pc = pc
    /\ \E http \in HttpOf(pc) :
          LET o == LookupStep(lk, rows, now, http)
          IN  lk' = o.f /\ rows' = o.rows
    /\ UNCHANGED <<rows0, nLookups, cacheInstance, testMode, lookupFrame>>

QueryOpenLibrary ==
    /\ lk.pc = "open_library"
    /\ QuerySource("open_library")
QueryGoogleBooks ==
    /\ lk.pc = "google_books"
    /\ QuerySource("google_books")
QueryOpenLibraryCover ==
    /\ lk.pc = "ol_cover"
    /\ QuerySource("ol_cover")
QueryPenguinCover ==
    /\ lk.pc = "penguin"
    /\ QuerySource("penguin")
QueryAmazonCover ==
    /\ lk.pc = "amazon"
    /\ QuerySource("amazon")
QueryOpenLibrarySearch ==
    /\ lk.pc = "ol_search"
    /\ QuerySource("ol_search")
QueryGoogleBooksSearch ==
    /\ lk.pc = "gb_search"
    /\ QuerySource("gb_search")
QueryItunesSearch ==
    /\ lk.pc = "itunes_search"
    /\ QuerySource("itunes_search")

NextLookup ==
    \/ \E v \in {"unset", "0", "1"} : SetTestMode(v)
    \/ OtherGetCache
    \/ \E i \in LookupIsbns, ti \in TitleArgs, a \in AuthorArgs : CallLookup(i, ti, a)
    \/ QueryOpenLibrary
    \/ QueryGoogleBooks
    \/ QueryOpenLibraryCover
    \/ QueryPenguinCover
    \/ QueryAmazonCover
    \/ QueryOpenLibrarySearch
    \/ QueryGoogleBooksSearch
    \/ QueryItunesSearch

InitSpecLookup == InitLookup /\ IdleMerge /\ IdleEnhance /\ IdleRest

SpecLookup == InitSpecLookup /\ [][NextLookup]_vars

Max(a, b) == IF a >= b THEN a ELSE b

\* C2: no source adapter raises to its caller, whatever the HTTP exchange
\* yields, so lookup_book_by_isbn13 never ends with an exception.
C2_NoAdapterRaises == ~lk.raised

\* C3 as stated: once a source has supplied a thumbnail_url, no further
\* source is queried.
C3_StopsAtFirstCover ==
    lk.coverAt # 0 => Len(lk.calls) = lk.coverAt

\* C3 as amended: the first test for a cover comes after both ISBN sources
\* (Open Library, then Google Books) have answered; from then on, as soon
\* as best holds a thumbnail_url no further source is queried, and the
\* record accumulated so far is written to the cache get_cache() returned
\* and is the return value.
C3_StopsAtFirstCoverAfterIsbnSources ==
    lk.coverAt # 0 =>
        /\ Len(lk.calls) <= Max(lk.coverAt, 2)
        /\ lk.pc # "done" => (lk.coverAt = 1 /\ lk.pc = "google_books")
        /\ lk.pc = "done" =>
              /\ ~lk.raised
              /\ Len(lk.calls) = Max(lk.coverAt, 2)
              /\ lk.ret = Some(lk.best)
              /\ lk.cache = "SQLite" =>
                    SQLiteGet(rows, CacheKey(lk.clean_isbn), now) = Some(lk.best)

\* Open Library supplied the cover, Google Books was queried all the same,
\* and the call returned right after it
C3_Witness ==
    /\ lk.pc = "done" /\ lk.coverAt = 1 /\ lk.calls = <<"open_library", "google_books">>
    /\ lk.cache = "SQLite"

\* C4: on a cache miss the sources are queried in the one fixed order, one
\* at a time and each at most once: the sources queried so far are always
\* an initial part of that order and the one queried next is the next of
\* it; Open Library is always queried; the three title searches are
\* queried only when best holds a title other than "Unknown".
C4_FixedSourceOrder ==
    /\ Len(lk.calls) <= Len(SourceOrder)
    /\ \A i \in 1..Len(lk.calls) : lk.calls[i] = SourceOrder[i]
    /\ lk.pc \notin {"idle", "done"} =>
          (Len(lk.calls) < Len(SourceOrder) /\ lk.pc = SourceOrder[Len(lk.calls) + 1])
    /\ (lk.pc = "done" /\ ~lk.hit) => Len(lk.calls) >= 1
    /\ lk.hit => lk.calls = <<>>
    /\ (Len(lk.calls) >= 6 \/ lk.pc \in {"ol_search", "gb_search", "itunes_search"}) =>
          (DictGet(lk.best, "title") \notin {NONE, "", "Unknown"})

\* all eight sources were queried, none had a cover
C4_Witness ==
    /\ lk.pc = "done" /\ Len(lk.calls) = 8 /\ lk.coverAt = 0

\* C7: a call that misses the cache writes to the cache only when a source
\* returned data; when every source returned nothing the cache is as it was
\* and the call returns None, with or without a title or author argument.
C7_CachesOnlySourceData ==
    /\ rows # rows0 => lk.anyData
    /\ (lk.pc = "done" /\ ~lk.hit /\ ~lk.raised /\ ~lk.anyData) => lk.ret = Nothing

\* C8: a cache obtained from get_cache() while TEST_MODE is "1" is a no-op
\* cache: its get returns None for every key.
C8_TestModeGetsNoOpCache ==
    (lk.pc # "idle" /\ lk.cacheEnv = "1") =>
        \A i \in LookupIsbns :
            HandleGet(lk.cache, rows, CacheKey(NormalizeIsbn(i)), now) = Nothing

----------------------------------------------------------------------------
(* book_lookup.py: lookup_book_by_isbn13 run to its end, lookup_books_batch *)

\* the rest of a call of lookup_book_by_isbn13 whose sources answer as w says
RECURSIVE RunLookup(_, _, _, _)
RunLookup(f, rs, t, w) ==
    IF f.pc = "done" THEN Out(f, rs)
    ELSE CHOOSE r \in {RunLookup(o.f, o.rows, t, w) :
                          o \in {LookupStep(f, rs, t, w[f.pc])}} : TRUE

ChunkSize == 50

\* batch_results.get(isbn)
BatchGet(results, isbn) == IF isbn \in DOMAIN results THEN results[isbn] ELSE Nothing

\* results[isbn] = v
BatchPut(results, isbn, v) ==
    [x \in (DOMAIN results) \cup {isbn} |-> IF x = isbn THEN v ELSE results[x]]

\* the "for isbn in chunk" loop over a 200 answer, from position i; an
\* exception of the parser ends it
RECURSIVE ChunkEntries(_, _, _, _, _, _, _)
ChunkEntries(chunk, i, payload, kind, results, rs, t) ==
    IF i > Len(chunk) THEN [results |-> results, rows |-> rs, raised |-> FALSE]
    ELSE LET isbn == chunk[i]
         IN  IF ~IsSome(payload[isbn])
             THEN ChunkEntries(chunk, i + 1, payload, kind,
                               BatchPut(results, isbn, Nothing), rs, t)
             ELSE LET r == ParseOpenLibraryData(The(payload[isbn]))
                  IN  IF r.raised
                      THEN [results |-> results, rows |-> rs, raised |-> TRUE]
                      ELSE ChunkEntries(chunk, i + 1, payload, kind,
                                        BatchPut(results, isbn, r.value),
                                        HandleSet(kind, rs, CacheKey(isbn),
                                                  The(r.value), Nothing, t), t)

\* one chunk of lookup_books_batch, whose request ends as http
ProcessChunk(chunk, http, kind, results, rs, t) ==
    LET allNone == [x \in (DOMAIN results) \cup {chunk[i] : i \in 1..Len(chunk)} |->
                       IF \E i \in 1..Len(chunk) : chunk[i] = x THEN Nothing
                       ELSE results[x]]
    IN  IF http.kind = "status_error" THEN [results |-> results, rows |-> rs]
        ELSE IF http.kind # "json_object" THEN [results |-> allNone, rows |-> rs]
        ELSE LET o == ChunkEntries(chunk, 1, http.payload, kind, results, rs, t)
             IN  IF o.raised THEN [results |-> allNone, rows |-> o.rows]
                 ELSE [results |-> o.results, rows |-> o.rows]

\* the chunks of lookup_books_batch from position i of "remaining"
RECURSIVE ProcessChunks(_, _, _, _, _, _, _)
ProcessChunks(remaining, i, https, kind, results, rs, t) ==
    IF i > Len(remaining) THEN [results |-> results, rows |-> rs]
    ELSE LET last == IF i + ChunkSize - 1 < Len(remaining) THEN i + ChunkSize - 1
                     ELSE Len(remaining)
             o == ProcessChunk(SubSeq(remaining, i, last),
                               https[((i - 1) \div ChunkSize) + 1], kind, results, rs, t)
         IN  ProcessChunks(remaining, i + ChunkSize, https, kind, o.results, o.rows, t)

\* lookup_books_batch(isbn13_list): order is list(set(...)) of the
\* normalized ISBNs, https the outcome of each chunk's request
LookupBooksBatch(order, https, kind, rs, t) ==
    LET isCached(isbn) ==
            LET c == HandleGet(kind, rs, CacheKey(isbn), t)
            IN  IsSome(c) /\ DOMAIN The(c) # {}
        notCached(isbn) == ~isCached(isbn)
        fromCache == [isbn \in {order[i] : i \in {j \in 1..Len(order) : isCached(order[j])}} |->
                         HandleGet(kind, rs, CacheKey(isbn), t)]
        remaining_isbns == SelectSeq(order, notCached)
    IN  ProcessChunks(remaining_isbns, 1, https, kind, fromCache, rs, t)

----------------------------------------------------------------------------
(* book_lookup.py: enhance_books_batch.  A book is a dict whose "isbn13"
   is a character sequence (empty when the book has none). *)

\* is_empty(value)
IsEmpty(v) == v = NONE \/ IsBlankStr(v)

\* parse_publication_year(publish_date) on the dates of the model
ParsePublicationYear(publish_date) ==
    CASE publish_date = "2001-05-01" -> "int:2001"
      [] publish_date = "2019-05-02" -> "int:2019"
      [] publish_date = "May 2001" -> "int:2001"
      [] OTHER -> NONE

CandidateFields == {"thumbnail_url", "title", "author", "publication_year",
                    "publisher", "description", "cover_url"}

\* every book with an ISBN taken as a candidate
IsCandidateAnyIsbn(b) == b["isbn13"] # <<>>

\* the test that makes a book a candidate
IsCandidate(b) ==
    /\ b["isbn13"] # <<>>
    /\ LET has_cover == Truthy(DictGet(b, "cover_url")) \/ Truthy(DictGet(b, "thumbnail_url"))
           missing_fields == {f \in CandidateFields : IsEmpty(DictGet(b, f))}
       IN  missing_fields # {} \/ ~has_cover

\* the deep lookup is tried whenever the book is a candidate
NeedsDeepAlways(info) == TRUE

\* "if not info or not info.get('thumbnail_url')"
NeedsDeep(info) ==
    ~IsSome(info) \/ DOMAIN The(info) = {}
        \/ ~Truthy(DictGet(The(info), "thumbnail_url"))

FieldMap == {"thumbnail_url", "cover_url", "title", "author", "publisher",
             "description", "dewey_decimal", "language", "page_count",
             "physical_format", "edition"}

\* the field updates of process_book: the book afterwards
ApplyInfo(book, info) ==
    LET filled == {k \in FieldMap : IsEmpty(DictGet(book, k)) /\ Truthy(DictGet(info, k))}
        year == IF IsEmpty(DictGet(book, "publication_year"))
                    /\ Truthy(DictGet(info, "publish_date"))
                THEN ParsePublicationYear(info["publish_date"]) ELSE NONE
        withYear == IF Truthy(year) THEN {"publication_year"} ELSE {}
    IN  [k \in (DOMAIN book) \cup filled \cup withYear |->
            IF k \in filled THEN info[k]
            ELSE IF k \in withYear THEN year
            ELSE book[k]]

\* has_updates at the end of process_book
HasUpdates(book, info) ==
    \/ \E k \in FieldMap : IsEmpty(DictGet(book, k)) /\ Truthy(DictGet(info, k))
    \/ /\ IsEmpty(DictGet(book, "publication_year"))
       /\ Truthy(DictGet(info, "publish_date"))
       /\ Truthy(ParsePublicationYear(info["publish_date"]))

\* the keys of a source dict that _merge_metadata would copy, in the order
\* the loop visits them
KeyOrder == <<"isbn13", "title", "author", "publish_date", "thumbnail_url",
              "cover_url", "publisher", "description", "dewey_decimal",
              "page_count", "language", "physical_format", "edition">>
OfferedKeys(source) ==
    SelectSeq(KeyOrder, LAMBDA k : k \in DOMAIN source /\ Truthy(source[k])
                                      /\ ~IsBlankStr(source[k]))

\* bounds and inputs of the enhancement model
NumBooks == 2
MaxWorkers == 2

BookInputs ==
    {[isbn13 |-> <<>>, title |-> "No ISBN"],
     [isbn13 |-> Isbn978, title |-> "Complete", author |-> "An Author",
      publication_year |-> "int:1999", publisher |-> "A Publisher",
      description |-> "A description", thumbnail_url |-> "own-thumb.jpg",
      cover_url |-> "own-cover.jpg"],
     [isbn13 |-> Isbn978, title |-> "Own Title"],
     [isbn13 |-> Isbn978Hyphens, title |-> "", author |-> "Own Author"],
     [isbn13 |-> Isbn979, title |-> "Other Title", publication_year |-> " "]}

BookLists == UNION {[1..n -> BookInputs] : n \in 1..NumBooks}

BatchEntries ==
    {[title |-> "OL Title", authors |-> <<Obj("OL Author")>>, languages |-> <<>>,
      publisher |-> NONE, publish_date |-> "May 2001",
      cover |-> Some([medium |-> "ol-M.jpg", large |-> "ol-L.jpg"])],
     [title |-> "OL Title", authors |-> <<>>, languages |-> <<>>,
      publisher |-> "OL Publisher", publish_date |-> NONE, cover |-> Nothing],
     [title |-> NONE, authors |-> <<NotObj>>, languages |-> <<>>,
      publisher |-> NONE, publish_date |-> NONE, cover |-> Nothing]}

\* the outcomes of the one bulk request for the ISBNs "isbns"
BatchHttp(isbns) ==
    {[kind |-> k, payload |-> [i \in isbns |-> Nothing]] :
        k \in {"conn_error", "status_error"}}
    \cup {[kind |-> "json_object", payload |-> pl] :
            pl \in [isbns -> {Nothing} \cup {Some(e) : e \in BatchEntries}]}

NoAnswer ==
    [pc \in {SourceOrder[i] : i \in 1..Len(SourceOrder)} |->
        CASE pc \in {"ol_cover", "penguin", "amazon"} -> "status_404"
          [] pc = "open_library" -> [kind |-> "conn_error", entry |-> Nothing]
          [] pc \in {"google_books", "gb_search"} -> [kind |-> "conn_error", items |-> <<>>]
          [] pc = "ol_search" ->
                [kind |-> "conn_error", docs |-> <<>>, fallback_docs |-> <<>>]
          [] OTHER -> [kind |-> "conn_error", artworkUrl100 |-> NONE,
                       trackName |-> NONE, artistName |-> NONE]]

\* how the sources answer one deep lookup: nothing at all; an Open Library
\* payload that makes the adapter raise; Google Books with a cover; Google
\* Books with a description only
DeepWorlds ==
    {NoAnswer,
     [NoAnswer EXCEPT !["open_library"] = [kind |-> "json_scalar", entry |-> Nothing]],
     [NoAnswer EXCEPT !["google_books"] =
         [kind |-> "json_object",
          items |-> <<[title |-> "GB Title", author |-> "GB Author",
                       thumbnail |-> "gb-thumb", description |-> NONE,
                       bad_shape |-> FALSE]>>]],
     [NoAnswer EXCEPT !["google_books"] =
         [kind |-> "json_object",
          items |-> <<[title |-> "", author |-> NONE, thumbnail |-> NONE,
                       description |-> "GB Description", bad_shape |-> FALSE]>>]]}

IdleTask ==
    [pc |-> "queued", isbn |-> <<>>, shared |-> FALSE, info |-> Nothing,
     frame |-> IdleFrame, deep |-> Nothing, todo |-> <<>>, result |-> FALSE]

InitEnhance ==
    /\ books \in BookLists
    /\ books0 = books
    /\ epc = "init"
    /\ candidates = <<>>
    /\ batch_results = EmptyDict
    /\ batch0 = EmptyDict
    /\ task = <<>>
    /\ updated_count = 0
    /\ max_workers \in 1..MaxWorkers
    /\ ghost = [bulk |-> 0, deep |-> {}, missed |-> {}, writers |-> {}, raised |-> {}]
    /\ rows \in {{}, SQLiteSet({}, CacheKey(Isbn978),
                              [isbn13 |-> IsbnText(Isbn978), title |-> "Cached Title"],
                              Nothing, 0)}
    /\ now = 0
    /\ cacheInstance = "None"
    /\ testMode = "unset"
    /\ lk = IdleFrame /\ rows0 = {} /\ nLookups = 0
    /\ lastOp = [op |-> "none"] /\ hist = EmptyDict

\* the permutations of a set of at most three elements
Orders(S) == {o \in [1..Cardinality(S) -> S] : \A x \in S : \E i \in DOMAIN o : o[i] = x}

\* enhance_books_batch(books): the candidates, the bulk lookup, the tasks
\* submitted to the pool
CallEnhance ==
    /\ epc = "init"
    /\ LET all == [i \in 1..Len(books) |-> i]
           cand == SelectSeq(all, LAMBDA i : IsCandidate(books[i]))
           unique == {NormalizeIsbn(books[cand[i]]["isbn13"]) : i \in 1..Len(cand)}
           kind == GetCacheKind(cacheInstance, testMode)
       IN  IF Len(cand) = 0
           THEN /\ epc' = "returned"
                /\ UNCHANGED <<candidates, batch_results, batch0, task, ghost, rows,
                               cacheInstance>>
           ELSE \E order \in Orders(unique), http \in BatchHttp(unique) :
                  LET o == LookupBooksBatch(order, <<http>>, kind, rows, now)
                  IN  /\ epc' = "parallel"
                      /\ candidates' = cand
                      /\ batch_results' = o.results
                      /\ batch0' = o.results
                      /\ rows' = o.rows
                      /\ cacheInstance' = GetCacheInstance(cacheInstance, testMode)
                      /\ task' = [i \in 1..Len(cand) |->
                                     [IdleTask EXCEPT !.isbn =
                                         NormalizeIsbn(books[cand[i]]["isbn13"])]]
                      /\ ghost' = [ghost EXCEPT
                                     !.bulk = @ + 1,
                                     !.missed = {i \in 1..Len(cand) :
                                         ~IsSome(BatchGet(o.results,
                                             NormalizeIsbn(books[cand[i]]["isbn13"])))}]
    /\ UNCHANGED <<books, books0, updated_count, max_workers, now, testMode, enhanceFrame>>

\* process_book has returned r: its locals are gone
Finished(tk, r) == [IdleTask EXCEPT !.pc = "done", !.isbn = tk.isbn, !.result = r]

\* the record a task calls info
InfoOf(tk) == IF tk.shared THEN BatchGet(batch_results, tk.isbn) ELSE tk.info

Running == {i \in 1..Len(task) : task[i].pc \notin {"queued", "done"}}

\* a pool thread takes the next task: process_book up to the cache check of
\* the deep lookup, when there is one
TaskBegin(i) ==
    /\ epc = "parallel"
    /\ i \in 1..Len(task)
    /\ task[i].pc = "queued"
    /\ \A j \in 1..(i - 1) : task[j].pc # "queued"
    /\ Cardinality(Running) < max_workers
    /\ LET info == BatchGet(batch_results, task[i].isbn)
           book == books[candidates[i]]
       IN  IF NeedsDeep(info)
           THEN /\ task' = [task EXCEPT ![i] =
                    [@ EXCEPT !.pc = "deep", !.shared = IsSome(info),
                              !.frame = StartLookup(task[i].isbn, DictGet(book, "title"),
                                                    DictGet(book, "author"),
                                                    cacheInstance, testMode, rows, now)]]
                /\ cacheInstance' = GetCacheInstance(cacheInstance, testMode)
                /\ ghost' = [ghost EXCEPT !.deep = @ \cup {i}]
           ELSE /\ task' = [task EXCEPT ![i] = [@ EXCEPT !.pc = "apply", !.shared = TRUE]]
                /\ UNCHANGED <<cacheInstance, ghost>>
    /\ UNCHANGED <<books, books0, epc, candidates, batch_results, batch0, updated_count,
                   max_workers, rows, now, testMode, enhanceFrame>>

\* the deep lookup of task i runs to its end, its sources answering as w says
TaskDeep(i, w) ==
    /\ i \in 1..Len(task)
    /\ task[i].pc = "deep"
    /\ \E o \in {RunLookup(task[i].frame, rows, now, w)} :
       LET deep_info == o.f.ret
           found == IsSome(deep_info) /\ DOMAIN The(deep_info) # {}
           info == InfoOf(task[i])
           hasInfo == IsSome(info) /\ DOMAIN The(info) # {}
       IN  /\ rows' = o.rows
           /\ ghost' = IF o.f.raised THEN [ghost EXCEPT !.raised = @ \cup {i}] ELSE ghost
           /\ task' = [task EXCEPT ![i] =
                  IF o.f.raised
                  THEN Finished(task[i], FALSE)
                  ELSE IF found /\ hasInfo
                  THEN [@ EXCEPT !.pc = "merge", !.frame = IdleFrame, !.deep = deep_info,
                                 !.todo = OfferedKeys(The(deep_info))]
                  ELSE IF found
                  THEN [@ EXCEPT !.pc = "apply", !.frame = IdleFrame,
                                 !.shared = FALSE, !.info = deep_info]
                  ELSE [@ EXCEPT !.pc = "apply", !.frame = IdleFrame]]
    /\ UNCHANGED <<books, books0, epc, candidates, batch_results, batch0, updated_count,
                   max_workers, now, cacheInstance, testMode, enhanceFrame>>

\* the keys of todo from the first one that target holds no value for
RECURSIVE SkipPresent(_, _)
SkipPresent(todo, target) ==
    IF todo = <<>> \/ ~Truthy(DictGet(target, Head(todo))) THEN todo
    ELSE SkipPresent(Tail(todo), target)

\* _merge_metadata(info, deep_info) on the record of the batch map: the
\* loop runs up to the next key that passes the test "if not target.get(k)".
\* (A value once present stays present, so the tests that fail read the
\* same whether made one by one or together with the one that passes.)
TaskMergeCheck(i) ==
    /\ i \in 1..Len(task)
    /\ task[i].pc = "merge"
    /\ LET tk == task[i]
           target == The(BatchGet(batch_results, tk.isbn))
           rest == SkipPresent(tk.todo, target)
       IN  task' = [task EXCEPT ![i] =
              IF rest = <<>> THEN [@ EXCEPT !.pc = "apply", !.todo = rest, !.deep = Nothing]
              ELSE [@ EXCEPT !.pc = "merge_write", !.todo = rest]]
    /\ UNCHANGED <<books, books0, epc, candidates, batch_results, batch0, updated_count,
                   max_workers, ghost, rows, now, cacheInstance, testMode, enhanceFrame>>

\* ... and the assignment "target[k] = v" that follows it
TaskMergeWrite(i) ==
    /\ i \in 1..Len(task)
    /\ task[i].pc = "merge_write"
    /\ LET tk == task[i]
           k == Head(tk.todo)
           target == The(BatchGet(batch_results, tk.isbn))
       IN  /\ batch_results' = BatchPut(batch_results, tk.isbn,
                                        Some(DictPut(target, k, The(tk.deep)[k])))
           /\ task' = [task EXCEPT ![i] = [@ EXCEPT !.pc = "merge", !.todo = Tail(@)]]
           /\ ghost' = [ghost EXCEPT !.writers = @ \cup {<<i, tk.isbn>>}]
    /\ UNCHANGED <<books, books0, epc, candidates, batch0, updated_count,
                   max_workers, rows, now, cacheInstance, testMode, enhanceFrame>>

\* the rest of process_book: no info, or the field updates of the book
TaskApply(i) ==
    /\ i \in 1..Len(task)
    /\ task[i].pc = "apply"
    /\ LET info == InfoOf(task[i])
           book == books[candidates[i]]
       IN  IF ~IsSome(info) \/ DOMAIN The(info) = {}
           THEN /\ task' = [task EXCEPT ![i] = Finished(task[i], FALSE)]
                /\ UNCHANGED books
           ELSE /\ books' = [books EXCEPT ![candidates[i]] = ApplyInfo(book, The(info))]
                /\ task' = [task EXCEPT ![i] =
                       Finished(task[i], HasUpdates(book, The(info)))]
    /\ UNCHANGED <<books0, epc, candidates, batch_results, batch0, updated_count,
                   max_workers, ghost, rows, now, cacheInstance, testMode, enhanceFrame>>

\* every completed future counted, whatever it returned
CountFutures(tk) == Len(tk)

\* "if future.result(): updated_count += 1" over the completed futures
CountUpdated(tk) == Cardinality({i \in 1..Len(tk) : tk[i].result})

\* every future has completed: the count is returned
ReturnEnhance ==
    /\ epc = "parallel"
    /\ \A i \in 1..Len(task) : task[i].pc = "done"
    /\ epc' = "returned"
    /\ updated_count' = CountUpdated(task)
    /\ UNCHANGED <<books, books0, candidates, batch_results, batch0, task, ghost,
                   max_workers,
                   rows, now, cacheInstance, testMode, enhanceFrame>>

NextEnhance ==
    \/ ReturnEnhance
    \/ \E i \in 1..NumBooks : TaskMergeWrite(i)
    \/ \E i \in 1..NumBooks : TaskMergeCheck(i)
    \/ \E i \in 1..NumBooks : TaskApply(i)
    \/ \E i \in 1..NumBooks : TaskBegin(i)
    \/ \E i \in 1..NumBooks, w \in DeepWorlds : TaskDeep(i, w)
    \/ CallEnhance

InitSpecEnhance == InitEnhance /\ IdleMerge /\ IdleRest

SpecEnhance == InitSpecEnhance /\ [][NextEnhance]_vars

\* the pool runs every submitted task, and every HTTP exchange of a task
\* ends (each request carries a timeout)
FairSpecEnhance == SpecEnhance /\ WF_vars(NextEnhance)

\* C9 as stated: the bulk lookup is made once, before any task starts, and
\* a task calls lookup_book_by_isbn13 only for a book whose ISBN the bulk
\* lookup returned no data for.
C9_DeepLookupOnlyOnBatchMiss ==
    /\ ghost.bulk <= 1
    /\ (ghost.bulk = 0) => \A i \in 1..Len(task) : task[i].pc = "queued"
    /\ ghost.deep \subseteq ghost.missed

\* C9 as amended: ... a task calls lookup_book_by_isbn13 only for a book
\* whose bulk record is missing or holds no thumbnail_url when the task
\* reads it; a book whose bulk record holds a thumbnail_url never triggers
\* a single-item lookup.
C9_DeepLookupOnlyWithoutBatchCover ==
    /\ ghost.bulk <= 1
    /\ (ghost.bulk = 0) => (task = <<>> /\ ghost.deep = {})
    /\ \A i \in ghost.deep :
          \/ i \in ghost.missed
          \/ DictGet(The(BatchGet(batch0, task[i].isbn)), "thumbnail_url") \in {NONE, ""}
    /\ \A i \in 1..Len(task) :
          (/\ task[i].pc # "queued"
           /\ IsSome(BatchGet(batch0, task[i].isbn))
           /\ DictGet(The(BatchGet(batch0, task[i].isbn)), "thumbnail_url")
                 \notin {NONE, ""})
          => i \notin ghost.deep

\* one book went through the deep lookup although the bulk lookup had
\* returned a (coverless) record for it, another did not because its bulk
\* record had a cover
C9_Witness ==
    /\ epc = "returned"
    /\ \E i \in ghost.deep :
          /\ IsSome(BatchGet(batch0, task[i].isbn))
          /\ ~Truthy(DictGet(The(BatchGet(batch0, task[i].isbn)), "thumbnail_url"))
    /\ \E j \in 1..Len(task) :
          /\ j \notin ghost.deep
          /\ IsSome(BatchGet(batch0, task[j].isbn))
          /\ Truthy(DictGet(The(BatchGet(batch0, task[j].isbn)), "thumbnail_url"))

\* C10: during the parallel phase no task modifies the batch-result map or
\* a record stored in it, so no two tasks write to the same object.
C10_BatchResultsReadOnly ==
    /\ batch_results = batch0
    /\ \A a \in ghost.writers, b \in ghost.writers : a[2] = b[2] => a[1] = b[1]

\* C22: lookup_books_batch returns a mapping with an entry for every
\* distinct normalized ISBN of its input, a metadata record or None,
\* whatever the bulk request answers (200, another status, an exception).
C22_BatchResultForEveryIsbn ==
    ghost.bulk = 1 =>
        /\ DOMAIN batch0 = {task[i].isbn : i \in 1..Len(task)}
        /\ \A isbn \in DOMAIN batch0 :
               ~IsSome(batch0[isbn]) \/ DOMAIN The(batch0[isbn]) # {}

----------------------------------------------------------------------------
(* job_queue.py: JobQueue.  Every method body runs under self._lock, so a
   method is one step.  Job ids are fresh uuid4 strings, here 1, 2, ... *)

MaxJobs == 2

JobIds == 1..MaxJobs
\* an id that create_job never returned
UnknownId == 0

\* max(0, min(100, progress)) left out
ClampNot(progress) == progress

\* max(0, min(100, progress))
Clamp(progress) ==
    LET m == IF progress < 100 THEN progress ELSE 100
    IN  IF m > 0 THEN m ELSE 0

\* Job(id, PENDING, function_name, created_at) with the dataclass defaults
NewJob ==
    [status |-> "pending", created_at |-> "t", started_at |-> NONE,
     completed_at |-> NONE, progress |-> 0, result |-> NONE, error |-> NONE]

\* create_job: the id returned and the jobs afterwards
FreshId(js) == Cardinality(DOMAIN js) + 1
QCreateJob(js) == [j \in (DOMAIN js) \cup {FreshId(js)} |->
                     IF j \in DOMAIN js THEN js[j] ELSE NewJob]

\* start_job(job_id)
QStartJob(js, id) ==
    IF id \in DOMAIN js
    THEN [js EXCEPT ![id].status = "running", ![id].started_at = "t"]
    ELSE js

\* update_progress(job_id, progress)
QUpdateProgress(js, id, progress) ==
    IF id \in DOMAIN js THEN [js EXCEPT ![id].progress = Clamp(progress)] ELSE js

\* fail_job with the status left as it is
QFailJobKeepStatus(js, id, error) ==
    IF id \in DOMAIN js
    THEN [js EXCEPT ![id].completed_at = "t", ![id].error = error]
    ELSE js

\* fail_job(job_id, error)
QFailJob(js, id, error) ==
    IF id \in DOMAIN js
    THEN [js EXCEPT ![id].status = "failed", ![id].completed_at = "t",
                    ![id].error = error]
    ELSE js

\* complete_job(job_id, result)
QCompleteJob(js, id, result) ==
    IF id \in DOMAIN js
    THEN [js EXCEPT ![id].status = "completed", ![id].completed_at = "t",
                    ![id].result = result, ![id].progress = 100]
    ELSE js

\* inputs of the job model
ProgressArgs == {-1, 50, 101}
ResultArgs == {NONE, "imported"}
ErrorArgs == {"boom"}
\* how a task ends: it returns a value or raises an Exception with a text
TaskOutcomes == {[kind |-> "return", value |-> r] : r \in ResultArgs}
                \cup {[kind |-> "raise", value |-> e] : e \in ErrorArgs}

\* what the job queue leaves alone
jobFrame == <<mergeVars, cacheVars, lookupVars, enhanceVars, storageVars>>

InitJobs ==
    /\ jobs = EmptyDict
    /\ jthread = EmptyDict
    /\ submitted = <<>>

\* the ids a caller outside run_task passes: of jobs made with create_job,
\* or an id that is no job's
CallerIds == ((DOMAIN jobs) \ (DOMAIN jthread)) \cup {UnknownId}

CreateJob ==
    /\ Cardinality(DOMAIN jobs) < MaxJobs
    /\ jobs' = QCreateJob(jobs)
    /\ UNCHANGED <<jthread, submitted, jobFrame>>

StartJob(id) ==
    /\ id \in CallerIds
    /\ jobs' = QStartJob(jobs, id)
    /\ UNCHANGED <<jthread, submitted, jobFrame>>

UpdateProgress(id, progress) ==
    /\ id \in CallerIds
    /\ jobs' = QUpdateProgress(jobs, id, progress)
    /\ UNCHANGED <<jthread, submitted, jobFrame>>

CompleteJob(id, result) ==
    /\ id \in CallerIds
    /\ jobs' = QCompleteJob(jobs, id, result)
    /\ UNCHANGED <<jthread, submitted, jobFrame>>

FailJob(id, error) ==
    /\ id \in CallerIds
    /\ jobs' = QFailJob(jobs, id, error)
    /\ UNCHANGED <<jthread, submitted, jobFrame>>

\* submit_job: create_job, thread.start(), return job_id
SubmitJob ==
    /\ Cardinality(DOMAIN jobs) < MaxJobs
    /\ jobs' = QCreateJob(jobs)
    /\ jthread' = [j \in (DOMAIN jthread) \cup {FreshId(jobs)} |->
                      IF j \in DOMAIN jthread THEN jthread[j]
                      ELSE [pc |-> "new", outcome |-> [kind |-> "none", value |-> NONE]]]
    /\ submitted' = Append(submitted, FreshId(jobs))
    /\ UNCHANGED jobFrame

\* run_task: self.start_job(job_id)
ThreadStart(j) ==
    /\ j \in DOMAIN jthread
    /\ jthread[j].pc = "new"
    /\ jobs' = QStartJob(jobs, j)
    /\ jthread' = [jthread EXCEPT ![j].pc = "task"]
    /\ UNCHANGED <<submitted, jobFrame>>

\* the task reports progress on its own job
TaskProgress(j, progress) ==
    /\ j \in DOMAIN jthread
    /\ jthread[j].pc = "task"
    /\ jobs' = QUpdateProgress(jobs, j, progress)
    /\ UNCHANGED <<jthread, submitted, jobFrame>>

\* task(job_id, ...) returns or raises
TaskEnds(j, outcome) ==
    /\ j \in DOMAIN jthread
    /\ jthread[j].pc = "task"
    /\ jthread' = [jthread EXCEPT ![j].pc = "ended", ![j].outcome = outcome]
    /\ UNCHANGED <<jobs, submitted, jobFrame>>

\* run_task: complete_job(job_id, result), or fail_job(job_id, str(e)) in
\* the except clause
ThreadFinish(j) ==
    /\ j \in DOMAIN jthread
    /\ jthread[j].pc = "ended"
    /\ jobs' = IF jthread[j].outcome.kind = "return"
               THEN QCompleteJob(jobs, j, jthread[j].outcome.value)
               ELSE QFailJob(jobs, j, jthread[j].outcome.value)
    /\ jthread' = [jthread EXCEPT ![j].pc = "finished"]
    /\ UNCHANGED <<submitted, jobFrame>>

NextJobs ==
    \/ CreateJob
    \/ \E id \in JobIds \cup {UnknownId} : StartJob(id)
    \/ \E id \in JobIds \cup {UnknownId}, p \in ProgressArgs : UpdateProgress(id, p)
    \/ \E id \in JobIds \cup {UnknownId}, r \in ResultArgs : CompleteJob(id, r)
    \/ \E id \in JobIds \cup {UnknownId}, e \in ErrorArgs : FailJob(id, e)
    \/ SubmitJob
    \/ \E j \in JobIds : ThreadStart(j)
    \/ \E j \in JobIds, p \in ProgressArgs : TaskProgress(j, p)
    \/ \E j \in JobIds, o \in TaskOutcomes : TaskEnds(j, o)
    \/ \E j \in JobIds : ThreadFinish(j)

InitSpecJobs ==
    InitJobs /\ IdleMerge /\ IdleCache /\ IdleLookup /\ IdleEnhance /\ IdleStorage

SpecJobs == InitSpecJobs /\ [][NextJobs]_vars

\* submit_job and the threads it starts, with no other caller
NextSubmit ==
    \/ SubmitJob
    \/ \E j \in JobIds : ThreadStart(j)
    \/ \E j \in JobIds, p \in ProgressArgs : TaskProgress(j, p)
    \/ \E j \in JobIds, o \in TaskOutcomes : TaskEnds(j, o)
    \/ \E j \in JobIds : ThreadFinish(j)

SpecSubmit == InitSpecJobs /\ [][NextSubmit]_vars

\* a started thread runs, and the task ends (the claim is about tasks that
\* terminate)
FairSpecSubmit ==
    /\ SpecSubmit
    /\ \A j \in JobIds :
          /\ WF_vars(ThreadStart(j))
          /\ WF_vars(\E o \in TaskOutcomes : TaskEnds(j, o))
          /\ WF_vars(ThreadFinish(j))

FinalStatus == {"completed", "failed"}

\* C13: every job of submit_job whose task terminates reaches a final
\* status, after having been marked running: completed exactly when the
\* task returned (result stored, progress 100), failed exactly when it
\* raised (the exception text stored as error); submit_job returns the id
\* without waiting, so a job is not final before its thread has finished.
C13_SubmittedJobReachesFinalStatus ==
    /\ [](\A j \in DOMAIN jthread :
            /\ \E i \in 1..Len(submitted) : submitted[i] = j
            /\ (jobs[j].status \in FinalStatus) <=> (jthread[j].pc = "finished")
            /\ (jthread[j].pc = "finished") =>
                  /\ jobs[j].started_at # NONE
                  /\ (jobs[j].status = "completed") <=> (jthread[j].outcome.kind = "return")
                  /\ (jobs[j].status = "failed") <=> (jthread[j].outcome.kind = "raise")
                  /\ (jobs[j].status = "completed") =>
                        /\ jobs[j].result = jthread[j].outcome.value
                        /\ jobs[j].progress = 100
                  /\ (jobs[j].status = "failed") =>
                        jobs[j].error = jthread[j].outcome.value)
    /\ \A j \in JobIds :
          (j \in DOMAIN jthread) ~> (j \in DOMAIN jobs /\ jobs[j].status \in FinalStatus)

\* two jobs were submitted and both ids returned; one task has raised and
\* its job is failed, the other job is still pending
C13_Witness ==
    /\ Len(submitted) = 2
    /\ \E j, k \in DOMAIN jthread :
          /\ jobs[j].status = "failed" /\ jobs[j].error = "boom"
          /\ jobs[k].status = "pending" /\ jthread[k].pc = "new"

\* C14: the progress of every job is an integer from 0 to 100, whatever
\* is passed to update_progress and in whatever order the methods are
\* called.
C14_ProgressInRange ==
    \A j \in DOMAIN jobs : jobs[j].progress \in 0..100

\* update_progress was called with a value outside the range, on a job
\* that had been completed before and failed after
C14_Witness ==
    \E j \in DOMAIN jobs :
        /\ jobs[j].progress = 0
        /\ jobs[j].status = "failed"
        /\ jobs[j].result = "imported"

\* the candidates (positions in the task list) whose book differs from the
\* book passed in
ChangedCandidates == {i \in 1..Len(task) : books[candidates[i]] # books0[candidates[i]]}

C12_OnlyFillsGaps ==
    /\ Len(books) = Len(books0)
    /\ \A i \in 1..Len(books) :
          /\ DOMAIN books0[i] \subseteq DOMAIN books[i]
          /\ books[i]["isbn13"] = books0[i]["isbn13"]
          /\ \A k \in (DOMAIN books0[i]) \ {"isbn13"} :
                ~IsEmpty(books0[i][k]) => books[i][k] = books0[i][k]
          /\ (\/ books0[i]["isbn13"] = <<>>
              \/ \A k \in CandidateFields : ~IsEmpty(DictGet(books0[i], k)))
             => /\ books[i] = books0[i]
                /\ \A j \in 1..Len(candidates) : candidates[j] # i
    /\ \A isbn \in (DOMAIN batch0) \cup {task[j].isbn : j \in 1..Len(task)} :
          \E j \in 1..Len(candidates) :
              NormalizeIsbn(books0[candidates[j]]["isbn13"]) = isbn

\* a call over a complete book and a candidate with the same ISBN: the
\* candidate was filled in, the complete book left alone
C12_Witness ==
    /\ epc = "returned"
    /\ Len(books) = 2
    /\ \E i, j \in 1..2 :
          /\ \A k \in CandidateFields : ~IsEmpty(DictGet(books0[i], k))
          /\ books[i] = books0[i]
          /\ books[j] # books0[j]
          /\ ~IsEmpty(DictGet(books0[j], "title"))

\* C25: final job states are absorbing: once a job's status is completed or
\* failed, no call of start_job, update_progress, complete_job or fail_job
\* changes its status, result, error or progress.
C25_FinalStatesAbsorbing ==
    [][\A id \in DOMAIN jobs :
          jobs[id].status \in {"completed", "failed"} =>
              /\ jobs'[id].status = jobs[id].status
              /\ jobs'[id].result = jobs[id].result
              /\ jobs'[id].error = jobs[id].error
              /\ jobs'[id].progress = jobs[id].progress]_vars

----------------------------------------------------------------------------
(* Specification of _merge_metadata alone *)

NextMerge == Merge

InitSpecMerge == InitMerge /\ IdleCache /\ IdleLookup /\ IdleEnhance /\ IdleRest

SpecMerge == InitSpecMerge /\ [][NextMerge]_vars

\* C1: after _merge_metadata(target, source), every key whose old target
\* value was populated keeps that value; a key that was missing or empty in
\* target holds the source's value exactly when the source has a value for
\* it that is non-empty and not whitespace-only; every other key is as it
\* was (missing keys stay missing); with no source, or an empty one, the
\* target is unchanged; the call returns the target.
C1_MergeFillsOnlyGaps ==
    IsSome(mReturned) =>
        /\ The(mReturned) = mTarget
        /\ (~IsSome(mSource) \/ DOMAIN The(mSource) = {}) => mTarget = mOld
        /\ \A k \in MergeKeys :
              LET populated == k \in DOMAIN mOld /\ mOld[k] \notin {NONE, "", ZERO}
                  offered == /\ IsSome(mSource)
                             /\ k \in DOMAIN The(mSource)
                             /\ The(mSource)[k] \notin {NONE, "", " ", ZERO}
              IN  IF ~populated /\ offered
                  THEN k \in DOMAIN mTarget /\ mTarget[k] = The(mSource)[k]
                  ELSE /\ (k \in DOMAIN mTarget) = (k \in DOMAIN mOld)
                       /\ k \in DOMAIN mOld => mTarget[k] = mOld[k]

\* a merge that filled one gap and kept one populated field although the
\* source offered a value for it
C1_Witness ==
    /\ IsSome(mReturned)
    /\ IsSome(mSource)
    /\ \E k \in MergeKeys : /\ k \in DOMAIN mOld /\ mOld[k] = "old"
                            /\ k \in DOMAIN The(mSource) /\ The(mSource)[k] = "new"
                            /\ mTarget[k] = "old"
    /\ \E k \in MergeKeys : /\ DictGet(mOld, k) \in {NONE, ""}
                            /\ k \in DOMAIN mTarget /\ mTarget[k] = "new"

----------------------------------------------------------------------------
(* utils/books.py, utils/authors.py, utils/libib_import.py: helpers of the
   storage backends.  ISBNs are character sequences; every other field is
   a Python value of the model (an int n is "int:n"), ids and ratings are
   numbers. *)

\* c.isdigit(): the ASCII digits and, of the other characters of the model,
\* SUPERSCRIPT TWO (U+00B2), a digit that int() does not accept
StrIsDigit(c) == IsDigitChar(c) \/ c = "U+00B2"

\* is_valid_isbn13(isbn) raises ValueError: int(char) or int(isbn[12]) on a
\* character that passed isdigit()
IsValidIsbn13Raises(isbn) ==
    /\ Len(isbn) = 13
    /\ \A i \in 1..Len(isbn) : StrIsDigit(isbn[i])
    /\ \E i \in 1..Len(isbn) : ~IsDigitChar(isbn[i])

\* is_valid_isbn13(isbn), when it returns
IsValidIsbn13(isbn) ==
    IF Len(isbn) # 13 \/ \E i \in 1..Len(isbn) : ~StrIsDigit(isbn[i])
    THEN FALSE
    ELSE LET Checksum[i \in 0..12] ==
                 IF i = 0 THEN 0
                 ELSE Checksum[i - 1]
                      + CharDigit(isbn[i]) * (IF (i - 1) % 2 = 0 THEN 1 ELSE 3)
             check_digit == (10 - (Checksum[12] % 10)) % 10
         IN  check_digit = CharDigit(isbn[13])

\* clean_isbn(isbn): re.sub(r"\D", "", isbn)
CleanIsbn(isbn) == SelectSeq(isbn, IsDigitChar)

\* split_authors(author_str) on the author strings of the model
SplitAuthors(author_str) ==
    CASE ~Truthy(author_str) -> <<>>
      [] author_str = "Ann and Bob" -> <<"Ann", "Bob">>
      [] OTHER -> <<author_str>>

\* the keyword arguments of add_book / update_book that default to None
OptionalFields ==
    {"thumbnail_url", "cover_url", "publisher", "description", "series",
     "dewey_decimal", "language", "page_count", "physical_format", "edition"}

\* the optional arguments as bulk_import passes them: b.get(field)
OptionalArgs(b) == [f \in OptionalFields |-> DictGet(b.opt, f)]

----------------------------------------------------------------------------
(* services/mock_storage.py.  A book is a record with the optional fields
   under "opt"; get_book_by_isbn and get_book_by_id return the position of
   the stored dict in self.books, 0 for None. *)

MockCreatedAt == "2024-01-01T00:00:00"

\* get_book_by_isbn finding no book
MockGetBookByIsbnNone(st, isbn13) == 0

\* get_book_by_isbn(isbn13)
MockGetBookByIsbn(st, isbn13) ==
    LET hits == {i \in 1..Len(st.books) :
                    NormalizeIsbn(st.books[i].isbn13) = NormalizeIsbn(isbn13)}
    IN  IF hits = {} THEN 0 ELSE CHOOSE i \in hits : \A j \in hits : i <= j

\* get_book_by_id(book_id), and the book update_book updates
MockGetBookById(st, book_id) ==
    LET hits == {i \in 1..Len(st.books) : st.books[i].id = book_id}
    IN  IF hits = {} THEN 0 ELSE CHOOSE i \in hits : \A j \in hits : i <= j

\* add_book(isbn13, title, author, publication_year, **optional)
MockAddBook(st, isbn13, title, author, publication_year, opt) ==
    LET book == [id |-> st.next_book_id,
                 isbn13 |-> NormalizeIsbn(isbn13),
                 title |-> title,
                 author |-> author,
                 authors |-> SplitAuthors(author),
                 publication_year |-> publication_year,
                 created_at |-> MockCreatedAt,
                 opt |-> opt]
    IN  [st EXCEPT !.books = Append(@, book), !.next_book_id = @ + 1]

\* update_book with every optional field set to its argument
MockUpdateBookOverwrite(st, book_id, isbn13, title, author, publication_year, opt) ==
    LET i == MockGetBookById(st, book_id)
    IN  IF i = 0 THEN st
        ELSE [st EXCEPT !.books[i] =
                 [@ EXCEPT !.isbn13 = isbn13,
                           !.title = title,
                           !.author = author,
                           !.authors = SplitAuthors(author),
                           !.publication_year = publication_year,
                           !.opt = opt]]

\* update_book(book_id, isbn13, ...): the storage afterwards; it raises,
\* and changes nothing, when no book has the id
MockUpdateBook(st, book_id, isbn13, title, author, publication_year, opt) ==
    LET i == MockGetBookById(st, book_id)
    IN  IF i = 0 THEN st
        ELSE [st EXCEPT !.books[i] =
                 [@ EXCEPT !.isbn13 = isbn13,
                           !.title = title,
                           !.author = author,
                           !.authors = SplitAuthors(author),
                           !.publication_year = publication_year,
                           !.opt = [f \in OptionalFields |-> Or(opt[f], @[f])]]]

\* upsert_book(...): the storage afterwards and the id of the book returned
MockUpsertBook(st, isbn13, title, author, publication_year, opt) ==
    LET existing == MockGetBookByIsbn(st, isbn13)
    IN  IF existing # 0
        THEN [st |-> MockUpdateBook(st, st.books[existing].id, isbn13, title,
                                    author, publication_year, opt),
              id |-> st.books[existing].id]
        ELSE [st |-> MockAddBook(st, isbn13, title, author, publication_year, opt),
              id |-> st.next_book_id]

\* add_reading_record(book_id, status, start_date, end_date, rating)
MockAddReadingRecord(st, book_id, status, start_date, end_date, rating) ==
    LET record == [id |-> st.next_record_id,
                   book_id |-> book_id,
                   status |-> status,
                   start_date |-> start_date,
                   end_date |-> end_date,
                   rating |-> rating,
                   created_at |-> MockCreatedAt]
    IN  [st EXCEPT !.reading_records = Append(@, record),
                   !.next_record_id = @ + 1]

\* the list without its element at position i
RemoveAt(s, i) == SubSeq(s, 1, i - 1) \o SubSeq(s, i + 1, Len(s))

\* delete_book(book_id): the first book with the id is popped
MockDeleteBook(st, book_id) ==
    LET i == MockGetBookById(st, book_id)
    IN  IF i = 0 THEN st ELSE [st EXCEPT !.books = RemoveAt(@, i)]

\* delete_reading_record(record_id)
MockDeleteReadingRecord(st, record_id) ==
    LET hits == {i \in 1..Len(st.reading_records) :
                    st.reading_records[i].id = record_id}
    IN  IF hits = {} THEN st
        ELSE [st EXCEPT !.reading_records =
                 RemoveAt(@, CHOOSE i \in hits : \A j \in hits : i <= j)]

\* the dedup loop of bulk_import (lines 251-266): does a stored record of
\* the book make record_data a duplicate
MockIsDuplicate(st, book_id, record_data) ==
    \E i \in 1..Len(st.reading_records) :
        LET r == st.reading_records[i]
        IN  /\ r.book_id = book_id
            /\ r.status = record_data.status
            /\ CASE record_data.status = "Completed" ->
                        r.end_date = record_data.end_date
                 [] record_data.status = "In Progress" -> TRUE
                 [] OTHER -> r.start_date = record_data.start_date

\* one turn of the loop of bulk_import
MockImportItem(st, item) ==
    LET b == item.book
        up == MockUpsertBook(st, b.isbn13, b.title, b.author,
                             b.publication_year, OptionalArgs(b))
    IN  IF IsSome(item.record) /\ ~MockIsDuplicate(up.st, up.id, The(item.record))
        THEN LET r == The(item.record)
             IN  MockAddReadingRecord(up.st, up.id, r.status, r.start_date,
                                      r.end_date, r.rating)
        ELSE up.st

\* bulk_import(items): the storage afterwards
RECURSIVE MockBulkImport(_, _)
MockBulkImport(st, items) ==
    IF Len(items) = 0 THEN st
    ELSE MockBulkImport(MockImportItem(st, Head(items)), Tail(items))

----------------------------------------------------------------------------
(* utils/libib_import.py: parse_libib_csv.  A CSV row is the record of the
   cells get_val returns (stripped, HTML-unescaped, "" for a column the
   file does not have); the columns Description, Series, DDC, Language,
   Physical Format and Edition are absent from the files of the model.
   The cells of the columns Thumbnail and Large Image are in the row, and
   no get_val call of the function names these columns. *)

\* the (normalized) dates of the model in str order; Today is date.today()
Today == "2024-04-01"
DateOrder == <<"", "2024-01-05", "2024-01-20", "2024-02-10", "2024-03-15", Today>>

\* a > b on the dates of the model
DateAfter(a, b) ==
    \E i, j \in 1..Len(DateOrder) : DateOrder[i] = a /\ DateOrder[j] = b /\ i > j

\* normalize_date(date_str) on the date cells of the model
NormalizeDate(date_str) ==
    CASE date_str = "01/05/2024" -> "2024-01-05"
      [] date_str = "2/10/24" -> "2024-02-10"
      [] OTHER -> date_str

\* re.search(r"\d{4}", publish_date) on the cells of the model
YearOf(publish_date) ==
    CASE publish_date \in {"2019", "May 2019"} -> "int:2019"
      [] OTHER -> NONE

\* int(float(rating_str)), 0 on ValueError
RatingOf(rating_str) ==
    CASE rating_str \in {"4", "4.5"} -> 4
      [] OTHER -> 0

\* int(re.sub(r"\D", "", page_count_str)), None on ValueError
PageCountOf(page_count_str) ==
    CASE page_count_str \in {"320", "320 pages"} -> "int:320"
      [] OTHER -> NONE

\* word in libib_status.lower(), on the status cells of the model
StatusHas(libib_status, word) ==
    CASE libib_status = "Abandoned" -> word = "abandon"
      [] libib_status = "In progress" -> word = "progress"
      [] libib_status = "Not begun" -> word \in {"begun", "not", "not begun"}
      [] libib_status = "Not started" -> word = "not"
      [] OTHER -> FALSE

\* lines 115-134: the Book Lamp status before the "not begun" test
StatusOf(libib_status, date_added, date_completed) ==
    IF Truthy(libib_status)
    THEN IF StatusHas(libib_status, "abandon") THEN "Abandoned"
         ELSE IF StatusHas(libib_status, "progress") THEN "In Progress"
         ELSE IF StatusHas(libib_status, "begun") \/ StatusHas(libib_status, "not")
         THEN "Not begun"
         ELSE "Completed"
    ELSE IF Truthy(date_completed) THEN "Completed"
    ELSE IF Truthy(date_added) THEN "In Progress"
    ELSE "Completed"

\* one turn of the loop of parse_libib_csv: the item of the row, or nothing
\* for a row without title or ISBN
ParseLibibRow(row) ==
    LET isbn == CleanIsbn(row.isbn)
        date_added == NormalizeDate(row.added)
        date_completed == NormalizeDate(row.completed)
        date_began == NormalizeDate(row.began)
        status0 == StatusOf(row.status, date_added, date_completed)
        status == IF Truthy(row.status) /\ StatusHas(row.status, "not begun")
                  THEN NONE ELSE status0
        start0 == IF Truthy(date_began) THEN date_began
                  ELSE IF Truthy(date_added) THEN date_added ELSE date_completed
        end0 == IF Truthy(date_completed) THEN date_completed ELSE NONE
        end_date == IF status = "Completed" /\ ~Truthy(end0) THEN start0 ELSE end0
        start1 == IF Truthy(start0) /\ Truthy(end_date) /\ DateAfter(start0, end_date)
                  THEN end_date ELSE start0
        start_date == IF ~Truthy(start1) /\ Truthy(status) THEN Today ELSE start1
    IN  IF ~Truthy(row.title) \/ Len(isbn) = 0 THEN Nothing
        ELSE Some([book |->
                     [isbn13 |-> isbn,
                      title |-> row.title,
                      author |-> row.author,
                      publication_year |-> YearOf(row.publish_date),
                      opt |-> [f \in {"publisher", "description", "series",
                                      "dewey_decimal", "language", "page_count",
                                      "physical_format", "edition"} |->
                                CASE f = "publisher" -> row.publisher
                                  [] f = "page_count" -> PageCountOf(row.page_count)
                                  [] OTHER -> ""]],
                   record |->
                     IF Truthy(status)
                     THEN Some([status |-> status, start_date |-> start_date,
                                end_date |-> end_date, rating |-> RatingOf(row.rating)])
                     ELSE Nothing])

\* parse_libib_csv(csv_content): the items of the rows, in order
RECURSIVE ParseLibibCsv(_)
ParseLibibCsv(csv) ==
    IF Len(csv) = 0 THEN <<>>
    ELSE ParseLibibCsv(SubSeq(csv, 1, Len(csv) - 1)) \o ParseLibibRow(csv[Len(csv)])

----------------------------------------------------------------------------
(* services/sheets_storage.py: GoogleSheetsStorage.bulk_import.  The
   spreadsheet is the data rows of its tabs (the header rows are left out).
   A Books row is a record of its cells, the optional columns under "opt";
   an empty cell is "": the API drops trailing empty cells of a row, and
   the code reads a dropped cell as "" (row_data[i] if len(row_data) > i
   else ""). *)

NewSheets ==
    [backend |-> "sheets", books |-> <<>>, reading_records |-> <<>>,
     authors |-> <<>>, book_authors |-> <<>>]

\* datetime.now(timezone.utc).isoformat(): one instant stands for all
SheetsCreatedAt == "utcnow"

\* v or ""
Cell(v) == IF Truthy(v) THEN v ELSE ""

\* the largest number of a set of naturals, 0 for the empty set
MaxOf(S) == IF S = {} THEN 0 ELSE CHOOSE n \in S : \A m \in S : m <= n

\* lines 866-880: clean ISBN -> position of the (last) row holding it
ExistingBooks(st) ==
    LET keys == {CleanIsbn(st.books[i].isbn13) : i \in 1..Len(st.books)} \ {<<>>}
    IN  [k \in keys |->
            MaxOf({i \in 1..Len(st.books) : CleanIsbn(st.books[i].isbn13) = k})]

\* lines 882-896: the keys (book_id, status, start_date, end_date) of the
\* stored records; an empty end_date cell is read as None
ExistingRecordKeys(st) ==
    {<<st.reading_records[i].book_id, st.reading_records[i].status,
       st.reading_records[i].start_date,
       IF Truthy(st.reading_records[i].end_date)
       THEN st.reading_records[i].end_date ELSE NONE>> :
        i \in 1..Len(st.reading_records)}

\* the dedup loop (lines 1028-1048)
SheetsIsDuplicate(keys, book_id, r) ==
    \E ek \in keys :
        /\ ek[1] = book_id
        /\ ek[2] = r.status
        /\ CASE r.status = "Completed" -> ek[4] = r.end_date
             [] r.status = "In Progress" -> TRUE
             [] OTHER -> ek[3] = r.start_date

\* lines 927-978: the row written over the stored row of a known ISBN
SheetsUpdatedRow(row_data, b) ==
    [id |-> row_data.id,
     isbn13 |-> b.isbn13,
     title |-> b.title,
     author |-> b.author,
     publication_year |-> Cell(b.publication_year),
     created_at |-> row_data.created_at,
     opt |-> [f \in OptionalFields |-> Or(DictGet(b.opt, f), row_data.opt[f])]]

\* lines 980-1001: the row appended for an ISBN not among the stored rows
SheetsNewRow(book_id, b) ==
    [id |-> book_id,
     isbn13 |-> b.isbn13,
     title |-> b.title,
     author |-> b.author,
     publication_year |-> Cell(b.publication_year),
     created_at |-> SheetsCreatedAt,
     opt |-> [f \in OptionalFields |-> Cell(DictGet(b.opt, f))]]

\* lines 1003-1020: the authors of one book; acc holds name_to_id,
\* next_author_id, authors_to_append, existing_links and links_to_append
RECURSIVE SheetsLinkAuthors(_, _, _)
SheetsLinkAuthors(acc, book_id, names) ==
    IF Len(names) = 0 THEN acc
    ELSE LET name == Head(names)
             known == name \in DOMAIN acc.name_to_id
             aid == IF known THEN acc.name_to_id[name] ELSE acc.next_author_id
             a1 == IF known THEN acc
                   ELSE [acc EXCEPT
                           !.name_to_id = DictPut(@, name, aid),
                           !.next_author_id = @ + 1,
                           !.authors_to_append = Append(@, [id |-> aid, name |-> name])]
             linked == <<book_id, aid>> \in a1.existing_links
             a2 == IF linked THEN a1
                   ELSE [a1 EXCEPT
                           !.existing_links = @ \cup {<<book_id, aid>>},
                           !.links_to_append =
                               Append(@, [book_id |-> book_id, author_id |-> aid])]
         IN  SheetsLinkAuthors(a2, book_id, Tail(names))

\* one turn of the loop over the items (lines 924-1065)
SheetsImportItem(st, acc, item) ==
    LET b == item.book
        isbn == b.isbn13
        known == isbn \in DOMAIN acc.existing_books
        book_id == IF known THEN st.books[acc.existing_books[isbn]].id
                   ELSE acc.next_book_id
        a1 == IF known
              THEN [acc EXCEPT !.books_to_update =
                       Append(@, [row_idx |-> acc.existing_books[isbn],
                                  values |-> SheetsUpdatedRow(
                                      st.books[acc.existing_books[isbn]], b)])]
              ELSE [acc EXCEPT !.next_book_id = @ + 1,
                               !.books_to_append = Append(@, SheetsNewRow(book_id, b))]
        a2 == SheetsLinkAuthors(a1, book_id, SplitAuthors(b.author))
    IN  IF IsSome(item.record)
           /\ ~SheetsIsDuplicate(a2.existing_record_keys, book_id, The(item.record))
        THEN LET r == The(item.record)
             IN  [a2 EXCEPT
                    !.records_to_append =
                        Append(@, [id |-> a2.next_record_id,
                                   book_id |-> book_id,
                                   status |-> r.status,
                                   start_date |-> r.start_date,
                                   end_date |-> Cell(r.end_date),
                                   rating |-> r.rating,
                                   created_at |-> SheetsCreatedAt]),
                    !.next_record_id = @ + 1,
                    !.existing_record_keys =
                        @ \cup {<<book_id, r.status, r.start_date, r.end_date>>}]
        ELSE a2

RECURSIVE SheetsImportItems(_, _, _)
SheetsImportItems(st, acc, items) ==
    IF Len(items) = 0 THEN acc
    ELSE SheetsImportItems(st, SheetsImportItem(st, acc, Head(items)), Tail(items))

\* values().batchUpdate: the ranges are written in the order given
RECURSIVE SheetsBatchUpdate(_, _)
SheetsBatchUpdate(book_rows, updates) ==
    IF Len(updates) = 0 THEN book_rows
    ELSE SheetsBatchUpdate(
             [book_rows EXCEPT ![Head(updates).row_idx] = Head(updates).values],
             Tail(updates))

\* bulk_import(items): the spreadsheet afterwards
SheetsBulkImport(st, items) ==
    LET acc0 ==
            [existing_books |-> ExistingBooks(st),
             next_book_id |->
                 MaxOf({st.books[i].id : i \in 1..Len(st.books)}) + 1,
             existing_record_keys |-> ExistingRecordKeys(st),
             next_record_id |->
                 MaxOf({st.reading_records[i].id :
                           i \in 1..Len(st.reading_records)}) + 1,
             name_to_id |->
                 [n \in {st.authors[i].name : i \in 1..Len(st.authors)} |->
                     st.authors[MaxOf({i \in 1..Len(st.authors) :
                                          st.authors[i].name = n})].id],
             next_author_id |->
                 MaxOf({st.authors[i].id : i \in 1..Len(st.authors)}) + 1,
             existing_links |->
                 {<<st.book_authors[i].book_id, st.book_authors[i].author_id>> :
                     i \in 1..Len(st.book_authors)},
             books_to_update |-> <<>>,
             books_to_append |-> <<>>,
             records_to_append |-> <<>>,
             authors_to_append |-> <<>>,
             links_to_append |-> <<>>]
    IN  \* the eager choice keeps one evaluation of the loop
        CHOOSE s \in
            {[st EXCEPT
                !.books = SheetsBatchUpdate(@, acc.books_to_update)
                          \o acc.books_to_append,
                !.reading_records = @ \o acc.records_to_append,
                !.authors = @ \o acc.authors_to_append,
                !.book_authors = @ \o acc.links_to_append] :
              acc \in {SheetsImportItems(st, acc0, items)}} : TRUE

----------------------------------------------------------------------------
(* bulk_import called on a backend: MockStorage or GoogleSheetsStorage,
   starting with nothing stored.  imp keeps the call: its number, the
   batch, the storage as it was before, and the batch of the call before. *)

MaxBatch == 2
MaxImports == 3

BlankRow ==
    [title |-> "", author |-> "", isbn |-> <<>>, publish_date |-> "",
     rating |-> "", added |-> "", completed |-> "", began |-> "", status |-> "",
     publisher |-> "", page_count |-> "", thumbnail |-> "", large_image |-> ""]

\* the CSV rows imported: a finished book; the same ISBN, hyphenated, under
\* another title and in progress; a book with no dates and no status; the
\* same book abandoned; the first book again, not begun, with a page count
ImportRows ==
    {[BlankRow EXCEPT !.title = "Book A", !.author = "Ann and Bob",
                      !.isbn = Isbn978, !.publish_date = "May 2019",
                      !.rating = "4.5", !.added = "01/05/2024",
                      !.completed = "2/10/24", !.publisher = "Pub A"],
     [BlankRow EXCEPT !.title = "Book A2", !.author = "Ann",
                      !.isbn = Isbn978Hyphens, !.status = "In progress",
                      !.added = "2024-03-15"],
     [BlankRow EXCEPT !.title = "Book B", !.author = "Bea", !.isbn = Isbn979],
     [BlankRow EXCEPT !.title = "Book B", !.author = "Bea", !.isbn = Isbn979,
                      !.status = "Abandoned", !.added = "2024-01-20"],
     [BlankRow EXCEPT !.title = "Book A", !.author = "Ann and Bob",
                      !.isbn = Isbn978, !.status = "Not begun",
                      !.page_count = "320 pages"]}

\* an item as fetch_missing_data passes it (app.py line 897): the copy of a
\* stored book with the covers found, and no record
EnhancedItem ==
    [book |-> [isbn13 |-> Isbn978, title |-> "Book A", author |-> "Ann and Bob",
               publication_year |-> "int:2019",
               opt |-> [f \in OptionalFields |->
                          CASE f = "thumbnail_url" -> "thumb.jpg"
                            [] f = "cover_url" -> "cover.jpg"
                            [] OTHER -> NONE]],
     record |-> Nothing]

ImportItems == {The(ParseLibibRow(row)) : row \in ImportRows} \cup {EnhancedItem}

Batches == UNION {[1..n -> ImportItems] : n \in 1..MaxBatch}

InitImport ==
    /\ storage \in {NewMockStorage, NewSheets}
    /\ resp = NoResponse
    /\ imp = NoImport

importFrame == <<mergeVars, cacheVars, lookupVars, enhanceVars, jobVars, resp>>

Imported(batch) ==
    [n |-> imp.n + 1, batch |-> batch, before |-> storage,
     prev |-> IF imp.n = 0 THEN <<>> ELSE imp.batch]

\* MockStorage.bulk_import(batch)
MockStorageBulkImport(batch) ==
    /\ storage.backend = "mock"
    /\ imp.n < MaxImports
    /\ storage' = MockBulkImport(storage, batch)
    /\ imp' = Imported(batch)
    /\ UNCHANGED importFrame

\* GoogleSheetsStorage.bulk_import(batch)
SheetsStorageBulkImport(batch) ==
    /\ storage.backend = "sheets"
    /\ imp.n < MaxImports
    /\ storage' = SheetsBulkImport(storage, batch)
    /\ imp' = Imported(batch)
    /\ UNCHANGED importFrame

NextImport ==
    \/ \E batch \in Batches : MockStorageBulkImport(batch)
    \/ \E batch \in Batches : SheetsStorageBulkImport(batch)

InitSpecImport ==
    InitImport /\ IdleMerge /\ IdleCache /\ IdleLookup /\ IdleEnhance /\ IdleJobs

SpecImport == InitSpecImport /\ [][NextImport]_vars

\* C17: a bulk_import of the batch the call before imported leaves the
\* books and the reading records as that call left them, on both backends.
C17_ImportIsIdempotent ==
    (imp.n >= 2 /\ imp.prev = imp.batch) =>
        /\ storage.books = imp.before.books
        /\ storage.reading_records = imp.before.reading_records


\* the positions in a list of books of the books with the ISBN
BooksWithIsbn(stored, isbn13) ==
    {p \in 1..Len(stored) : NormalizeIsbn(stored[p].isbn13) = NormalizeIsbn(isbn13)}

\* the positions in a batch of the items with the ISBN
ItemsWithIsbn(batch, isbn13) ==
    {k \in 1..Len(batch) :
        NormalizeIsbn(batch[k].book.isbn13) = NormalizeIsbn(isbn13)}

\* C18: when bulk_import processes items whose ISBN matches a stored book,
\* that book keeps its place and its id, its title and author become those
\* of the (last such) item, and every optional field that no such item
\* carries a value for keeps its stored value; every other stored book is
\* unchanged.  On both backends.
C18_ImportUpdatesMatchedBook ==
    imp.n >= 1 =>
        LET old == imp.before.books
            new == storage.books
        IN  /\ Len(new) >= Len(old)
            /\ \A k \in 1..Len(imp.batch) :
                  LET isbn == imp.batch[k].book.isbn13
                      M == BooksWithIsbn(old, isbn)
                      ks == ItemsWithIsbn(imp.batch, isbn)
                      last == imp.batch[MaxOf(ks)].book
                  IN  M # {} =>
                        \E p \in M :
                            /\ new[p].id = old[p].id
                            /\ new[p].title = last.title
                            /\ new[p].author = last.author
                            /\ \A f \in OptionalFields :
                                  (\A j \in ks :
                                      ~Truthy(DictGet(imp.batch[j].book.opt, f)))
                                  => new[p].opt[f] = old[p].opt[f]
                            /\ \A q \in M \ {p} : new[q] = old[q]
            /\ \A p \in 1..Len(old) :
                  ItemsWithIsbn(imp.batch, old[p].isbn13) = {} => new[p] = old[p]

\* an import over a stored book with a publisher and covers, by one item
\* with another title and no publisher and no covers, next to another
\* stored book
C18_Witness ==
    /\ imp.n >= 1
    /\ Len(imp.batch) = 1
    /\ Len(imp.before.books) = 2
    /\ \E p \in BooksWithIsbn(imp.before.books, imp.batch[1].book.isbn13) :
          /\ imp.before.books[p].title # imp.batch[1].book.title
          /\ storage.books[p].title = imp.batch[1].book.title
          /\ \A f \in {"publisher", "thumbnail_url", "cover_url"} :
                /\ Truthy(imp.before.books[p].opt[f])
                /\ ~Truthy(DictGet(imp.batch[1].book.opt, f))
                /\ storage.books[p].opt[f] = imp.before.books[p].opt[f]

\* C19: after bulk_import of a batch the storage holds exactly one book for
\* each ISBN of the batch, on both backends.
C19_OneBookPerBatchIsbn ==
    imp.n >= 1 =>
        \A k \in 1..Len(imp.batch) :
            Cardinality(BooksWithIsbn(storage.books, imp.batch[k].book.isbn13)) = 1

----------------------------------------------------------------------------
(* One CSV row imported into an empty backend: parse_libib_csv, then
   bulk_import, as import_books does (app.py lines 936-939). *)

CsvRows ==
    {[BlankRow EXCEPT !.title = t, !.author = "Bea", !.isbn = i, !.status = s,
                      !.added = a, !.completed = c, !.began = b,
                      !.thumbnail = img[1], !.large_image = img[2]] :
        t \in {"", "Book B"}, i \in {<<>>, Isbn979},
        img \in {<<"", "">>, <<"http://example.com/t.jpg", "http://example.com/c.jpg">>},
        s \in {"", "Not begun", "In progress", "Abandoned", "Completed",
               "Not started"},
        a \in {"", "01/05/2024", "2024-03-15"}, c \in {"", "2/10/24"},
        b \in {"", "2024-01-20"}}

ImportedCsv(csv) ==
    [n |-> imp.n + 1, csv |-> csv, batch |-> ParseLibibCsv(csv),
     before |-> storage, prev |-> <<>>]

\* parse_libib_csv(content) and MockStorage.bulk_import(items)
ImportCsvMock(csv) ==
    /\ storage.backend = "mock"
    /\ imp.n = 0
    /\ storage' = MockBulkImport(storage, ParseLibibCsv(csv))
    /\ imp' = ImportedCsv(csv)
    /\ UNCHANGED importFrame

\* parse_libib_csv(content) and GoogleSheetsStorage.bulk_import(items)
ImportCsvSheets(csv) ==
    /\ storage.backend = "sheets"
    /\ imp.n = 0
    /\ storage' = SheetsBulkImport(storage, ParseLibibCsv(csv))
    /\ imp' = ImportedCsv(csv)
    /\ UNCHANGED importFrame

NextCsv ==
    \/ \E row \in CsvRows : ImportCsvMock(<<row>>)
    \/ \E row \in CsvRows : ImportCsvSheets(<<row>>)

SpecCsv == InitSpecImport /\ [][NextCsv]_vars

\* C20: for a CSV row with a title and an ISBN the import creates the book
\* and: no reading record when the row is marked "Not begun"; an In
\* Progress record with no end date when it is marked "In progress"; an
\* Abandoned record when it is marked "Abandoned"; without a status, a
\* Completed record when the row has a completion date and an In Progress
\* record when it only has an added date.
C20_StatusMapping ==
    (imp.n = 1 /\ Truthy(imp.csv[1].title) /\ Len(CleanIsbn(imp.csv[1].isbn)) > 0) =>
        LET row == imp.csv[1]
            recs == storage.reading_records
            One(status) == Len(recs) = 1 /\ recs[1].status = status
        IN  /\ Len(storage.books) = 1
            /\ row.status = "Not begun" => recs = <<>>
            /\ row.status = "In progress" =>
                  One("In Progress") /\ ~Truthy(recs[1].end_date)
            /\ row.status = "Abandoned" => One("Abandoned")
            /\ (row.status = "" /\ row.completed # "") => One("Completed")
            /\ (row.status = "" /\ row.completed = "" /\ row.added # "") =>
                  One("In Progress")

\* C21: importing a CSV row that has Thumbnail and Large Image cells stores
\* the two values as the thumbnail_url and the cover_url of the imported
\* book.
C21_ImportStoresImages ==
    (/\ imp.n = 1
     /\ Truthy(imp.csv[1].title) /\ Len(CleanIsbn(imp.csv[1].isbn)) > 0
     /\ imp.csv[1].thumbnail # "" /\ imp.csv[1].large_image # "") =>
        /\ Len(storage.books) = 1
        /\ storage.books[1].opt["thumbnail_url"] = imp.csv[1].thumbnail
        /\ storage.books[1].opt["cover_url"] = imp.csv[1].large_image

\* C28: every reading record that parse_libib_csv emits is well formed,
\* whichever of the began, added and completed dates and of the statuses
\* the row has: its start_date is not empty, its start_date is not after
\* its end_date when it has both, and a Completed record has an end_date.
C28_ParsedRecordsWellFormed ==
    imp.n = 1 =>
        \A k \in 1..Len(imp.batch) :
            IsSome(imp.batch[k].record) =>
                LET r == The(imp.batch[k].record)
                IN  /\ Truthy(r.start_date)
                    /\ (Truthy(r.start_date) /\ Truthy(r.end_date))
                          => ~DateAfter(r.start_date, r.end_date)
                    /\ r.status = "Completed" => Truthy(r.end_date)

----------------------------------------------------------------------------
(* app.py run with TEST_MODE=1: get_storage() is the MockStorage singleton.
   A request is one step.  resp keeps the request served last: its route,
   where the response leads ("page" for a rendered page, else the endpoint
   redirected to), what is_authorised() was when the request came in, the
   books and records stored before it, and for POST /books the ISBN after
   cleaning and what the lookup returned. *)

TEST_MODE == TRUE
TEST_ISBN == <<"9", "7", "8", "0", "0", "0", "0", "0", "0", "0", "0", "0", "0">>

MaxBookId == 2
MaxRecordId == 2

\* str.strip() for the blanks of the model
RECURSIVE Strip(_)
Strip(s) ==
    IF Len(s) > 0 /\ Head(s) = " " THEN Strip(Tail(s))
    ELSE IF Len(s) > 0 /\ s[Len(s)] = " " THEN Strip(SubSeq(s, 1, Len(s) - 1))
    ELSE s

\* str.replace("-", "")
RemoveHyphens(s) == LET kept(c) == c # "-" IN SelectSeq(s, kept)

\* the routes decorated with @authorisation_required
GuardedRoutes ==
    {"GET /about", "GET /history", "GET /books/new", "GET /books",
     "GET /books/search", "GET /stats", "GET /books/<id>",
     "POST /books/<id>/reading-records", "POST /reading-records/<id>/edit",
     "POST /reading-records/<id>/delete", "POST /books",
     "POST /books/fetch-covers", "GET /books/import", "POST /books/import",
     "POST /books/<id>/edit", "POST /books/<id>/delete"}

\* the decorated routes whose handlers only read the storage
PageRoutes ==
    {"GET /about", "GET /history", "GET /books/new", "GET /books",
     "GET /books/search", "GET /stats", "GET /books/import"}

\* is_authorised() answering True whatever the flag
IsAuthorisedAlways(st) == TRUE

\* MockStorage.is_authorised()
IsAuthorised(st) == st.authorised

Stored(st) == [books |-> st.books, reading_records |-> st.reading_records]

\* the response to a request for route that leads to "to"
Response(route, to) ==
    [route |-> route, to |-> to, auth |-> storage.authorised,
     before |-> Stored(storage)]

appFrame == <<mergeVars, cacheVars, lookupVars, enhanceVars, jobVars, imp>>

InitApp ==
    /\ storage = NewMockStorage
    /\ resp = NoResponse
    /\ imp = NoImport
    /\ lk = IdleFrame
    /\ rows0 = {}
    /\ nLookups = 0
    /\ cacheInstance = "None"
    /\ testMode = "1"

\* GET /test/connect
TestConnect ==
    /\ storage' = [storage EXCEPT !.authorised = TRUE]
    /\ resp' = Response("GET /test/connect", "home")
    /\ UNCHANGED appFrame

\* GET /test/disconnect
TestDisconnect ==
    /\ storage' = [storage EXCEPT !.authorised = FALSE]
    /\ resp' = Response("GET /test/disconnect", "home")
    /\ UNCHANGED appFrame

\* POST /test/reset
TestReset ==
    /\ storage' = [storage EXCEPT !.books = <<>>, !.reading_records = <<>>,
                                  !.next_book_id = 1, !.next_record_id = 1,
                                  !.authorised = FALSE]
    /\ resp' = Response("POST /test/reset", "json")
    /\ UNCHANGED appFrame

\* GET /logout: in test mode a redirect to /test/disconnect
Logout ==
    /\ resp' = Response("GET /logout", "test_disconnect")
    /\ UNCHANGED <<storage, appFrame>>

\* decorated_function, not authorised: any decorated route
RedirectUnauthorised(route) ==
    /\ ~IsAuthorised(storage)
    /\ resp' = Response(route, "unauthorised")
    /\ UNCHANGED <<storage, appFrame>>

\* a decorated route that renders a page from what is stored
ViewPage(route) ==
    /\ IsAuthorised(storage)
    /\ resp' = Response(route, "page")
    /\ UNCHANGED <<storage, appFrame>>


\* the ISBN field of the form of POST /books: missing, a valid ISBN typed
\* with blanks and hyphens, the test ISBN, a wrong check digit, too short
FormIsbns ==
    {<<>>, <<" ">> \o Isbn978Hyphens \o <<" ">>, TEST_ISBN,
     <<"9", "7", "8", "0", "3", "0", "6", "4", "0", "6", "1", "5", "8">>,
     <<"9", "7", "8">>}

\* how the sources answer the lookup of create_book: as for a deep lookup,
\* or Open Library with title and author, or with a title only
CreateWorlds ==
    DeepWorlds
    \cup {[NoAnswer EXCEPT !["open_library"] =
              [kind |-> "json_object",
               entry |-> Some([title |-> "OL Title", authors |-> a,
                               languages |-> <<>>, publisher |-> "OL Publisher",
                               publish_date |-> NONE, cover |-> Nothing])]] :
            a \in {<<Obj("OL Author")>>, <<>>}}

\* the data used for the test ISBN (lines 625-631)
TestData ==
    [title |-> "Test Driven Development", author |-> "Test Author",
     publish_date |-> "2019-05-02", thumbnail_url |-> NONE]

\* POST /books (create_book), authorised; title[:300], author[:200] and
\* thumbnail_url[:500] are the whole text for the texts of the model
CreateBook(form_isbn, w) ==
    /\ IsAuthorised(storage)
    /\ storage.next_book_id <= MaxBookId
    /\ LET isbn == RemoveHyphens(Strip(form_isbn))
           test_isbn == TEST_MODE /\ isbn = TEST_ISBN
           is_valid == test_isbn \/ IsValidIsbn13(isbn)
           existing == MockGetBookByIsbn(storage, isbn)
           looked_up == is_valid /\ existing = 0 /\ ~test_isbn
       IN  \E o \in {IF looked_up
                     THEN RunLookup(StartLookup(isbn, NONE, NONE, cacheInstance,
                                                testMode, rows, now), rows, now, w)
                     ELSE Out(IdleFrame, rows)} :
           LET data == IF test_isbn THEN Some(TestData) ELSE o.f.ret
               has_data == IsSome(data) /\ DOMAIN The(data) # {}
               title == IF has_data THEN Or(DictGet(The(data), "title"), "") ELSE ""
               author == IF has_data THEN Or(DictGet(The(data), "author"), "") ELSE ""
               thumbnail_url == IF has_data THEN DictGet(The(data), "thumbnail_url")
                                ELSE NONE
               add == /\ is_valid /\ existing = 0 /\ ~o.f.raised /\ has_data
                      /\ Truthy(title) /\ Truthy(author)
               opt == [f \in OptionalFields |->
                         CASE f = "thumbnail_url" ->
                                  IF Truthy(thumbnail_url) THEN thumbnail_url ELSE NONE
                           [] f = "series" -> NONE
                           [] OTHER -> DictGet(The(data), f)]
           IN  /\ storage' =
                     IF add
                     THEN MockAddBook(storage, isbn, title, author,
                              ParsePublicationYear(DictGet(The(data), "publish_date")),
                              opt)
                     ELSE storage
               /\ resp' = [route |-> "POST /books",
                           to |-> IF is_valid THEN "list_books" ELSE "new_book_form",
                           auth |-> storage.authorised,
                           before |-> Stored(storage),
                           isbn |-> isbn,
                           looked_up |-> looked_up,
                           raised |-> o.f.raised,
                           data |-> IF looked_up THEN o.f.ret ELSE Nothing]
               /\ rows' = o.rows
               /\ cacheInstance' = IF looked_up
                                   THEN GetCacheInstance(cacheInstance, testMode)
                                   ELSE cacheInstance
    /\ UNCHANGED <<mergeVars, now, lastOp, hist, testMode, lk, rows0, nLookups,
                   enhanceVars, jobVars, imp>>

\* POST /books/<id>/delete (delete_book), authorised
DeleteBook(book_id) ==
    /\ IsAuthorised(storage)
    /\ storage' = MockDeleteBook(storage, book_id)
    /\ resp' = Response("POST /books/<id>/delete", "list_books")
    /\ UNCHANGED appFrame

\* POST /books/<id>/reading-records (create_reading_record), authorised
CreateReadingRecord(book_id, status, start_date, end_date, rating) ==
    /\ IsAuthorised(storage)
    /\ storage.next_record_id <= MaxRecordId
    /\ storage' = IF ~Truthy(status) \/ ~Truthy(start_date) THEN storage
                  ELSE MockAddReadingRecord(storage, book_id, status, start_date,
                                            end_date, rating)
    /\ resp' = Response("POST /books/<id>/reading-records", "book_detail")
    /\ UNCHANGED appFrame

\* POST /reading-records/<id>/delete (delete_reading_record), authorised
DeleteReadingRecord(record_id) ==
    /\ IsAuthorised(storage)
    /\ storage' = MockDeleteReadingRecord(storage, record_id)
    /\ resp' = Response("POST /reading-records/<id>/delete", "reading_history")
    /\ UNCHANGED appFrame

\* the file of the form of POST /books/import: none, one without a name,
\* one that is no .csv file, or a CSV file of one row
Uploads ==
    {[kind |-> k, csv |-> <<>>] : k \in {"no_file", "no_name", "not_csv"}}
    \cup {[kind |-> "csv", csv |-> <<row>>] : row \in ImportRows}

\* POST /books/import (import_books), authorised
ImportBooks(upload) ==
    /\ IsAuthorised(storage)
    /\ storage.next_book_id <= MaxBookId
    /\ storage.next_record_id <= MaxRecordId
    /\ storage' = IF upload.kind = "csv"
                  THEN MockBulkImport(storage, ParseLibibCsv(upload.csv))
                  ELSE storage
    /\ resp' = Response("POST /books/import",
                        IF upload.kind = "csv" THEN "list_books"
                        ELSE "import_books_form")
    /\ UNCHANGED appFrame

NextApp ==
    \/ TestConnect
    \/ TestDisconnect
    \/ TestReset
    \/ Logout
    \/ \E route \in GuardedRoutes : RedirectUnauthorised(route)
    \/ \E route \in PageRoutes : ViewPage(route)
    \/ \E form_isbn \in FormIsbns, w \in CreateWorlds : CreateBook(form_isbn, w)
    \/ \E book_id \in 1..MaxBookId : DeleteBook(book_id)
    \/ \E book_id \in 1..MaxBookId, status \in {"", "In Progress"},
          start_date \in {"", "2024-01-05"} :
          CreateReadingRecord(book_id, status, start_date, NONE, 0)
    \/ \E record_id \in 1..MaxRecordId : DeleteReadingRecord(record_id)
    \/ \E upload \in Uploads : ImportBooks(upload)

InitSpecApp == InitApp /\ IdleMerge /\ IdleCache /\ IdleEnhance /\ IdleJobs

SpecApp == InitSpecApp /\ [][NextApp]_vars

\* C15: a request to a decorated route (every route under /books,
\* /reading-records, /history, /stats and /about) that comes in while the
\* storage is not authorised is answered with a redirect to the
\* unauthorised page and leaves the stored books and reading records as
\* they were.
C15_UnauthorisedRedirects ==
    (resp.route \in GuardedRoutes /\ ~resp.auth) =>
        /\ resp.to = "unauthorised"
        /\ Stored(storage) = resp.before

\* a refused POST /books after a disconnect, with a book still stored
C15_Witness ==
    /\ resp.route = "POST /books"
    /\ ~resp.auth
    /\ resp.to = "unauthorised"
    /\ Len(storage.books) > 0


\* the lookup of the last POST /books returned both a title and an author
GotTitleAndAuthor ==
    /\ resp.looked_up
    /\ ~resp.raised
    /\ IsSome(resp.data)
    /\ Truthy(DictGet(The(resp.data), "title"))
    /\ Truthy(DictGet(The(resp.data), "author"))

\* the last request added exactly one book, with the ISBN submitted
AddedOneBook ==
    /\ Len(storage.books) = Len(resp.before.books) + 1
    /\ SubSeq(storage.books, 1, Len(resp.before.books)) = resp.before.books
    /\ storage.books[Len(storage.books)].isbn13 = resp.isbn
    /\ storage.reading_records = resp.before.reading_records

\* C16 as claimed: POST /books changes the stored books only by adding
\* exactly one book, and only when the submitted ISBN passes ISBN-13
\* validation, no stored book has that ISBN and the lookup returned both a
\* title and an author.
C16_AddsOnlyValidatedBook ==
    (resp.route = "POST /books" /\ Stored(storage) # resp.before) =>
        /\ AddedOneBook
        /\ IsValidIsbn13(resp.isbn)
        /\ BooksWithIsbn(resp.before.books, resp.isbn) = {}
        /\ GotTitleAndAuthor

\* C16 as amended: in test mode the test ISBN stands for a valid one and
\* the fixed test data for the lookup; POST /books adds exactly one book
\* when the ISBN is acceptable, not stored yet and title and author are
\* there, and changes nothing in every other case.
C16_AddsValidatedOrTestBook ==
    resp.route = "POST /books" =>
        IF ~resp.auth THEN Stored(storage) = resp.before
        ELSE LET test_isbn == TEST_MODE /\ resp.isbn = TEST_ISBN
                 accepted == /\ IsValidIsbn13(resp.isbn) \/ test_isbn
                             /\ BooksWithIsbn(resp.before.books, resp.isbn) = {}
                             /\ GotTitleAndAuthor \/ test_isbn
             IN  /\ accepted => AddedOneBook
                 /\ ~accepted => Stored(storage) = resp.before
                 /\ test_isbn => ~resp.looked_up

\* a looked-up book added next to a stored one, and then the same ISBN
\* posted again
C16_Witness ==
    /\ resp.route = "POST /books"
    /\ resp.auth
    /\ IsValidIsbn13(resp.isbn)
    /\ GotTitleAndAuthor
    /\ Len(resp.before.books) = 1
    /\ AddedOneBook

----------------------------------------------------------------------------
(* services/search.py: calculate_relevance_score and search_books.  A str
   is the sequence of its characters.  A book is a dict whose "id" and
   "publication_year" are ints and whose other values are strs; a key the
   dict does not have is a field that is None.  A reading record has a
   str status, str dates (the empty str for an end_date that is None) and
   an int rating.  Scores are counted in half points, the exact-match bonus
   being weight * 0.5. *)

\* str.lower() on the letters of the model
LowerChar(c) ==
    CASE c = "A" -> "a"
      [] c = "C" -> "c"
      [] c = "D" -> "d"
      [] c = "E" -> "e"
      [] OTHER -> c

Lower(s) == [i \in 1..Len(s) |-> LowerChar(s[i])]

\* str(n) for an int n >= 0
RECURSIVE IntStr(_)
IntStr(n) ==
    IF n < 10 THEN <<DigitChar(n)>>
    ELSE IntStr(n \div 10) \o <<DigitChar(n % 10)>>

\* pattern in text
Contains(text, pattern) ==
    \E i \in 0..(Len(text) - Len(pattern)) :
        SubSeq(text, i + 1, i + Len(pattern)) = pattern

\* re.search raises re.error: of the patterns of the model, those with "("
ReError(pattern) == \E i \in 1..Len(pattern) : pattern[i] = "("

\* the atoms (literal characters and ".") match text from position i + 1
RegexAt(atoms, text, i) ==
    /\ i + Len(atoms) <= Len(text)
    /\ \A k \in 1..Len(atoms) :
          atoms[k] = "." \/ LowerChar(atoms[k]) = LowerChar(text[i + k])

\* re.search(pattern, text, re.IGNORECASE) for a pattern made of an
\* optional leading "^", "." and literal characters
ReSearch(pattern, text) ==
    IF Len(pattern) > 0 /\ pattern[1] = "^"
    THEN RegexAt(Tail(pattern), text, 0)
    ELSE \E i \in 0..Len(text) : RegexAt(pattern, text, i)

\* matches(text, pattern, is_regex_match); the escaped pattern is searched
\* as a literal
Matches(text, pattern, is_regex_match) ==
    IF Len(text) = 0 THEN FALSE
    ELSE IF ~is_regex_match THEN Contains(Lower(text), Lower(pattern))
    ELSE IF ReError(pattern) THEN Contains(Lower(text), Lower(pattern))
    ELSE ReSearch(pattern, text)

Weights ==
    [title |-> 10, author |-> 8, isbn13 |-> 7, series |-> 6, publisher |-> 4,
     description |-> 2, dewey_decimal |-> 3, publication_year |-> 3, id |-> 10,
     created_at |-> 1, status |-> 5, rating |-> 4, dates |-> 3]

\* the weights that are for reading records
RecordWeights == {"status", "rating", "dates"}

IntFields == {"id", "publication_year"}

\* str(value)
FieldStr(field, value) == IF field \in IntFields THEN IntStr(value) ELSE value

\* the truth value of a field's value
FieldTruthy(field, value) ==
    IF field \in IntFields THEN value # 0 ELSE Len(value) > 0

RECURSIVE SumOf(_, _)
SumOf(f, S) ==
    IF S = {} THEN 0
    ELSE LET x == CHOOSE y \in S : TRUE IN f[x] + SumOf(f, S \ {x})

\* what one turn of the loop over the book fields adds, in half points
BookFieldScore(book, field, query, is_regex) ==
    IF /\ field \in DOMAIN book
       /\ FieldTruthy(field, book[field])
       /\ Matches(FieldStr(field, book[field]), query, is_regex)
    THEN 2 * Weights[field]
         + (IF Lower(FieldStr(field, book[field])) = Lower(query)
            THEN Weights[field] ELSE 0)
    ELSE 0

\* what one turn of the loop over the reading records adds, in half points
RecordScore(record, query, is_regex) ==
    (IF Matches(record.status, query, is_regex) THEN 2 * Weights["status"] ELSE 0)
    + (IF record.rating # 0 /\ Matches(IntStr(record.rating), query, is_regex)
       THEN 2 * Weights["rating"] ELSE 0)
    + (IF Matches(record.start_date, query, is_regex) THEN 2 * Weights["dates"] ELSE 0)
    + (IF Matches(record.end_date, query, is_regex) THEN 2 * Weights["dates"] ELSE 0)

\* calculate_relevance_score(book, reading_records, query, is_regex), in
\* half points
CalculateRelevanceScore(book, reading_records, query, is_regex) ==
    SumOf([field \in (DOMAIN Weights) \ RecordWeights |->
              BookFieldScore(book, field, query, is_regex)],
          (DOMAIN Weights) \ RecordWeights)
    + SumOf([i \in 1..Len(reading_records) |->
                RecordScore(reading_records[i], query, is_regex)],
            1..Len(reading_records))

\* [r for r in all_records if r["book_id"] == book["id"]]
BookRecords(all_records, book) ==
    SelectSeq(all_records, LAMBDA r : r.book_id = book["id"])

\* book.copy() with the keys reading_records and _relevance_score set
BookCopy(book, book_records, score) ==
    [k \in (DOMAIN book) \cup {"reading_records", "_relevance_score"} |->
        CASE k = "reading_records" -> book_records
          [] k = "_relevance_score" -> score
          [] OTHER -> book[k]]

\* the loop over all_books from position i: the results appended
RECURSIVE ScoredBooks(_, _, _, _, _)
ScoredBooks(all_books, i, all_records, query, is_regex) ==
    IF i > Len(all_books) THEN <<>>
    ELSE LET book == all_books[i]
             book_records == BookRecords(all_records, book)
             score == CalculateRelevanceScore(book, book_records, query, is_regex)
         IN  (IF score > 0 THEN <<BookCopy(book, book_records, score)>> ELSE <<>>)
             \o ScoredBooks(all_books, i + 1, all_records, query, is_regex)

\* x put behind the elements whose score is not below its own
RECURSIVE InsertByScore(_, _)
InsertByScore(sorted, x) ==
    IF Len(sorted) = 0 THEN <<x>>
    ELSE IF Head(sorted)["_relevance_score"] >= x["_relevance_score"]
    THEN <<Head(sorted)>> \o InsertByScore(Tail(sorted), x)
    ELSE <<x>> \o sorted

\* the results left in the order of all_books
KeepOrder(results) == results

\* results.sort(key=lambda b: b["_relevance_score"], reverse=True): stable
RECURSIVE SortByRelevance(_)
SortByRelevance(results) ==
    IF Len(results) = 0 THEN <<>>
    ELSE InsertByScore(SortByRelevance(SubSeq(results, 1, Len(results) - 1)),
                       results[Len(results)])

\* search_books(all_books, all_records, query, is_regex): the list returned
\* and the two lists passed in as they are afterwards (every write of the
\* function goes to a book_copy)
SearchBooks(all_books, all_records, query, is_regex) ==
    [results |-> IF Len(Strip(query)) = 0 THEN <<>>
                 ELSE SortByRelevance(ScoredBooks(all_books, 1, all_records,
                                                  Strip(query), is_regex)),
     all_books |-> all_books,
     all_records |-> all_records]

----------------------------------------------------------------------------
(* search_books called on lists of books and reading records, as
   MockStorage.search passes them (mock_storage.py line 307).  resp keeps
   the call: the query, is_regex, the lists before the call, the result. *)

MaxSearchBooks == 2
MaxSearchRecords == 2

Abandoned == <<"A", "b", "a", "n", "d", "o", "n", "e", "d">>
Completed == <<"C", "o", "m", "p", "l", "e", "t", "e", "d">>
Jan05 == <<"2", "0", "2", "4", "-", "0", "1", "-", "0", "5">>
Feb10 == <<"2", "0", "2", "4", "-", "0", "2", "-", "1", "0">>

SearchBookChoices ==
    {[id |-> 1, isbn13 |-> Isbn978, title |-> <<"D", "u", "n", "e">>,
      author |-> <<"A", "n", "n">>, publication_year |-> 1965,
      created_at |-> Jan05],
     [id |-> 2, isbn13 |-> Isbn979, title |-> <<"E", "m", "m", "a">>,
      author |-> <<"D", "a", "n">>, series |-> <<>>, publication_year |-> 0],
     [id |-> 3, isbn13 |-> Isbn979, title |-> <<"E", "d", "e", "n">>,
      author |-> <<"E", "d">>, description |-> <<"d", "u", "n", "e">>]}

SearchRecordChoices ==
    {[id |-> 1, book_id |-> 1, status |-> Abandoned, start_date |-> Jan05,
      end_date |-> <<>>, rating |-> 0],
     [id |-> 2, book_id |-> 2, status |-> Completed, start_date |-> Jan05,
      end_date |-> Feb10, rating |-> 5],
     [id |-> 3, book_id |-> 3, status |-> Completed, start_date |-> Feb10,
      end_date |-> Feb10, rating |-> 1]}

\* the lists without repetition of at most n elements of S
ListsOf(S, n) ==
    UNION {{l \in [1..k -> S] : \A i, j \in 1..k : l[i] = l[j] => i = j} : k \in 0..n}

SearchQueries ==
    {<<>>, <<" ">>, <<" ", " ">>, <<"d", "u", "n", "e">>,
     <<" ", "D", "u", "n", "e", " ">>, <<"d">>, <<"a", "n">>, <<"1">>, <<"e">>,
     <<"x">>, <<"^", "d">>, <<"(">>, <<".">>, <<"d", ".", "n">>, <<"0", "2">>}

InitSearch ==
    /\ \E bs \in ListsOf(SearchBookChoices, MaxSearchBooks),
          rs \in ListsOf(SearchRecordChoices, MaxSearchRecords) :
          storage = [backend |-> "mock", books |-> bs, reading_records |-> rs]
    /\ resp = NoResponse
    /\ imp = NoImport

\* search_books(storage.books, storage.reading_records, query, is_regex)
Search(query, is_regex) ==
    /\ resp.route = "none"
    /\ \E o \in {SearchBooks(storage.books, storage.reading_records, query, is_regex)} :
          /\ storage' = [storage EXCEPT !.books = o.all_books,
                                        !.reading_records = o.all_records]
          /\ resp' = [route |-> "search_books", query |-> query,
                      is_regex |-> is_regex, before |-> storage,
                      results |-> o.results]
    /\ UNCHANGED appFrame

NextSearch ==
    \E query \in SearchQueries, is_regex \in BOOLEAN : Search(query, is_regex)

InitSpecSearch ==
    InitSearch /\ IdleMerge /\ IdleCache /\ IdleLookup /\ IdleEnhance /\ IdleJobs

SpecSearch == InitSpecSearch /\ [][NextSearch]_vars

\* C23: search_books returns exactly the books whose relevance score for
\* the query is greater than 0, each as a copy carrying its records and its
\* score, ordered by non-increasing score; it returns the empty list for an
\* empty or whitespace-only query; the books and records passed in are not
\* modified.
C23_SearchReturnsScoredBooks ==
    resp.route = "search_books" =>
        LET q == Strip(resp.query)
            all_books == resp.before.books
            all_records == resp.before.reading_records
            Score(b) == CalculateRelevanceScore(b, BookRecords(all_records, b),
                                                q, resp.is_regex)
            hits == {i \in 1..Len(all_books) : Score(all_books[i]) > 0}
            res == resp.results
            Plain(r) == [k \in (DOMAIN r) \ {"reading_records", "_relevance_score"} |-> r[k]]
        IN  /\ storage = resp.before
            /\ Len(q) = 0 => Len(res) = 0
            /\ Len(q) > 0 =>
                  /\ Len(res) = Cardinality(hits)
                  /\ \A i \in hits : \E k \in 1..Len(res) :
                        /\ Plain(res[k]) = all_books[i]
                        /\ res[k]["_relevance_score"] = Score(all_books[i])
                        /\ res[k]["reading_records"] = BookRecords(all_records, all_books[i])
                  /\ \A j, k \in 1..Len(res) :
                        j < k => res[j]["_relevance_score"] >= res[k]["_relevance_score"]

\* two books matched and the one later in the list, scoring higher, came
\* first
C23_Witness ==
    /\ resp.route = "search_books"
    /\ Len(resp.results) = 2
    /\ resp.results[1]["id"] = resp.before.books[2]["id"]
    /\ resp.results[1]["_relevance_score"] > resp.results[2]["_relevance_score"]

----------------------------------------------------------------------------
(* utils/books.py: is_valid_isbn13 called on a string.  resp keeps the
   call: the argument, whether the call raised, and the value returned. *)

IsbnChars == {DigitChar(n) : n \in 0..9} \cup {"X", "U+00B2"}

\* the strings tried: 9780306406157 with two of its characters replaced,
\* and these strings shortened by their last character or extended by "7"
IsbnInputs ==
    LET changed == {[Isbn978 EXCEPT ![p[1]] = c, ![p[2]] = d] :
                       p \in {<<1, 2>>, <<6, 13>>, <<12, 13>>}, c, d \in IsbnChars}
    IN  changed
        \cup {SubSeq(s, 1, 12) : s \in changed}
        \cup {s \o <<"7">> : s \in changed}

InitIsbn ==
    /\ storage = NewMockStorage
    /\ resp \in {[route |-> "argument", isbn |-> s] : s \in IsbnInputs}
    /\ imp = NoImport

\* is_valid_isbn13(resp.isbn)
CallIsValidIsbn13 ==
    /\ resp.route = "argument"
    /\ resp' = [route |-> "is_valid_isbn13", isbn |-> resp.isbn,
                raised |-> IsValidIsbn13Raises(resp.isbn),
                value |-> IF IsValidIsbn13Raises(resp.isbn) THEN FALSE
                          ELSE IsValidIsbn13(resp.isbn)]
    /\ UNCHANGED <<storage, appFrame>>

NextIsbn == CallIsValidIsbn13

InitSpecIsbn ==
    InitIsbn /\ IdleMerge /\ IdleCache /\ IdleLookup /\ IdleEnhance /\ IdleJobs

SpecIsbn == InitSpecIsbn /\ [][NextIsbn]_vars

\* the digits of s weighted 1, 3, 1, 3, ... from the first to the
\* thirteenth, summed
WeightedSum(s) ==
    LET Sum[i \in 0..Len(s)] ==
            IF i = 0 THEN 0
            ELSE Sum[i - 1] + CharDigit(s[i]) * (IF i % 2 = 1 THEN 1 ELSE 3)
    IN  Sum[Len(s)]

\* C24: is_valid_isbn13(s) is true exactly when s consists of 13 decimal
\* digits whose sum weighted alternately 1, 3, 1, 3, ... is divisible by 10;
\* it is false for every other string, including any string that contains a
\* non-digit.
C24_ValidExactlyOnChecksum ==
    resp.route = "is_valid_isbn13" =>
        /\ ~resp.raised
        /\ resp.value <=> (/\ Len(resp.isbn) = 13
                           /\ \A i \in 1..13 : IsDigitChar(resp.isbn[i])
                           /\ WeightedSum(resp.isbn) % 10 = 0)

----------------------------------------------------------------------------
(* Books and reading records added and books deleted, on MockStorage and
   on GoogleSheetsStorage.  GoogleSheetsStorage has no add_reading_record:
   there records come from bulk_import only.  imp keeps the number of
   calls made, the ids of the books deleted so far and the ids of the
   records these books had when they were deleted. *)

MaxStoreOps == 3

\* _get_next_id(tab_name): 1 for a tab without data rows, else the largest
\* id of the tab + 1
SheetsGetNextId(tab_rows) ==
    IF Len(tab_rows) = 0 THEN 1
    ELSE MaxOf({tab_rows[i].id : i \in 1..Len(tab_rows)}) + 1

\* _sync_book_authors(sid, book_id, author_str), for author strings that
\* name no author twice
SheetsSyncBookAuthors(st, book_id, author_str) ==
    LET acc0 ==
            [name_to_id |->
                 [n \in {st.authors[i].name : i \in 1..Len(st.authors)} |->
                     st.authors[MaxOf({i \in 1..Len(st.authors) :
                                          st.authors[i].name = n})].id],
             next_author_id |->
                 MaxOf({st.authors[i].id : i \in 1..Len(st.authors)}) + 1,
             existing_links |->
                 {<<st.book_authors[i].book_id, st.book_authors[i].author_id>> :
                     i \in 1..Len(st.book_authors)},
             authors_to_append |-> <<>>,
             links_to_append |-> <<>>]
        acc == SheetsLinkAuthors(acc0, book_id, SplitAuthors(author_str))
    IN  [st EXCEPT !.authors = @ \o acc.authors_to_append,
                   !.book_authors = @ \o acc.links_to_append]

\* GoogleSheetsStorage.add_book: the row appended, the authors synced
SheetsAddBook(st, b) ==
    LET book_id == SheetsGetNextId(st.books)
    IN  SheetsSyncBookAuthors(
            [st EXCEPT !.books = Append(@, SheetsNewRow(book_id, b))],
            book_id, b.author)

\* GoogleSheetsStorage.delete_book(book_id): the first row with the id is
\* deleted from the Books tab, and nothing else
SheetsDeleteBook(st, book_id) ==
    LET hits == {i \in 1..Len(st.books) : st.books[i].id = book_id}
    IN  IF hits = {} THEN st
        ELSE [st EXCEPT !.books =
                 RemoveAt(@, CHOOSE i \in hits : \A j \in hits : i <= j)]

\* get_reading_records(book_id), on both backends
GetReadingRecords(st, book_id) ==
    SelectSeq(st.reading_records, LAMBDA r : r.book_id = book_id)

\* get_reading_history(): the records whose book_id is the id of a stored
\* book, on both backends
GetReadingHistory(st) ==
    SelectSeq(st.reading_records,
              LAMBDA r : \E i \in 1..Len(st.books) : st.books[i].id = r.book_id)

\* the rows of ImportRows without a status: a finished Book A and a Book B
\* without dates, each with a reading record
StoreItems == {The(ParseLibibRow(row)) : row \in {r \in ImportRows : r.status = ""}}

InitStore ==
    /\ storage \in {NewMockStorage, NewSheets}
    /\ resp = NoResponse
    /\ imp = [n |-> 0, deleted |-> {}, orphaned |-> {}]

\* add_book(...)
StoreAddBook(item) ==
    /\ imp.n < MaxStoreOps
    /\ storage' = IF storage.backend = "mock"
                  THEN MockAddBook(storage, item.book.isbn13, item.book.title,
                                   item.book.author, item.book.publication_year,
                                   OptionalArgs(item.book))
                  ELSE SheetsAddBook(storage, item.book)
    /\ imp' = [imp EXCEPT !.n = @ + 1]
    /\ UNCHANGED importFrame

\* MockStorage.add_reading_record(book_id, ...) for a stored book
StoreAddReadingRecord(book_id, item) ==
    /\ imp.n < MaxStoreOps
    /\ storage.backend = "mock"
    /\ MockGetBookById(storage, book_id) # 0
    /\ storage' = MockAddReadingRecord(storage, book_id, The(item.record).status,
                                       The(item.record).start_date,
                                       The(item.record).end_date,
                                       The(item.record).rating)
    /\ imp' = [imp EXCEPT !.n = @ + 1]
    /\ UNCHANGED importFrame

\* bulk_import([item])
StoreBulkImport(item) ==
    /\ imp.n < MaxStoreOps
    /\ storage' = IF storage.backend = "mock"
                  THEN MockBulkImport(storage, <<item>>)
                  ELSE SheetsBulkImport(storage, <<item>>)
    /\ imp' = [imp EXCEPT !.n = @ + 1]
    /\ UNCHANGED importFrame

\* delete_book(book_id) for a stored book
StoreDeleteBook(book_id) ==
    /\ imp.n < MaxStoreOps
    /\ \E i \in 1..Len(storage.books) : storage.books[i].id = book_id
    /\ storage' = IF storage.backend = "mock"
                  THEN MockDeleteBook(storage, book_id)
                  ELSE SheetsDeleteBook(storage, book_id)
    /\ imp' = [imp EXCEPT
                 !.n = @ + 1,
                 !.deleted = @ \cup {book_id},
                 !.orphaned = @ \cup {storage.reading_records[k].id :
                                        k \in {j \in 1..Len(storage.reading_records) :
                                                  storage.reading_records[j].book_id = book_id}}]
    /\ UNCHANGED importFrame

NextStore ==
    \/ \E item \in StoreItems : StoreAddBook(item)
    \/ \E book_id \in 1..MaxStoreOps, item \in StoreItems :
          StoreAddReadingRecord(book_id, item)
    \/ \E item \in StoreItems : StoreBulkImport(item)
    \/ \E book_id \in 1..MaxStoreOps : StoreDeleteBook(book_id)

InitSpecStore ==
    InitStore /\ IdleMerge /\ IdleCache /\ IdleLookup /\ IdleEnhance /\ IdleJobs

SpecStore == InitSpecStore /\ [][NextStore]_vars

\* C26: a reading record is only reported, by get_reading_records(book_id)
\* and by get_reading_history, under the book it was created for: the
\* records a deleted book leaves behind never show up under a stored book,
\* and a deleted book's id is never given to a new book, on both backends.
C26_RecordsStayWithTheirBook ==
    /\ \A i \in 1..Len(storage.books) :
          /\ storage.books[i].id \notin imp.deleted
          /\ \A k \in 1..Len(GetReadingRecords(storage, storage.books[i].id)) :
                GetReadingRecords(storage, storage.books[i].id)[k].id \notin imp.orphaned
    /\ \A k \in 1..Len(GetReadingHistory(storage)) :
          GetReadingHistory(storage)[k].id \notin imp.orphaned

----------------------------------------------------------------------------
(* app.py: edit_book, and the requests that add, import, edit and delete
   books, authorised, from an empty MockStorage in test mode. *)

\* the form of POST /books/<id>/edit: the ISBN missing, a valid ISBN typed
\* with blanks and hyphens, the test ISBN, a wrong check digit; title and
\* author missing or given; the other fields left empty
EditForms ==
    {[isbn13 |-> i, title |-> t, author |-> a] :
        i \in {<<>>, <<" ">> \o Isbn978Hyphens \o <<" ">>, TEST_ISBN,
               <<"9", "7", "8", "0", "3", "0", "6", "4", "0", "6", "1", "5", "8">>},
        t \in {"", "Edited Title"}, a \in {"", "Editor"}}

\* POST /books/<id>/edit (edit_book), authorised; update_book raises for an
\* id that no book has, which the handler catches
EditBook(book_id, form) ==
    /\ IsAuthorised(storage)
    /\ LET isbn13 == RemoveHyphens(Strip(form.isbn13))
           rejected == \/ ~Truthy(form.title) \/ ~Truthy(form.author)
                       \/ /\ Len(isbn13) > 0
                          /\ ~IsValidIsbn13(isbn13)
                          /\ ~(TEST_MODE /\ isbn13 = TEST_ISBN)
       IN  storage' = IF rejected THEN storage
                      ELSE MockUpdateBook(storage, book_id, isbn13, form.title,
                                          form.author, NONE,
                                          [f \in OptionalFields |-> NONE])
    /\ resp' = Response("POST /books/<id>/edit", "book_detail")
    /\ UNCHANGED appFrame

NextBooks ==
    \/ TestConnect
    \/ \E form_isbn \in FormIsbns, w \in CreateWorlds : CreateBook(form_isbn, w)
    \/ \E upload \in Uploads : ImportBooks(upload)
    \/ \E book_id \in 1..MaxBookId, form \in EditForms : EditBook(book_id, form)
    \/ \E book_id \in 1..MaxBookId : DeleteBook(book_id)

SpecBooks == InitSpecApp /\ [][NextBooks]_vars

\* C27: after any sequence of authorised requests to POST /books, POST
\* /books/import, POST /books/<id>/edit and POST /books/<id>/delete from an
\* empty MockStorage, no two stored books have the same normalized ISBN-13.
C27_NoTwoBooksWithOneIsbn ==
    \A i, j \in 1..Len(storage.books) :
        NormalizeIsbn(storage.books[i].isbn13) = NormalizeIsbn(storage.books[j].isbn13)
            => i = j


----------------------------------------------------------------------------
(* book_lookup.py: lookup_books_by_author. One action is one call: the cache
   is read, and on a miss the search request is made, its documents are
   reduced to one entry per title and the list is written to the cache.
   The limit parameter is sent to the server and is not applied to the
   documents received; it is not part of the model. Names and titles are
   sequences of characters. *)

\* the ttl of cache.set(cache_key, books, ttl=86400)
AuthorBooksTtl == 86400
\* the clock advances by half that ttl
HalfAuthorBooksTtl == AuthorBooksTtl \div 2

\* bounds of the author model
MaxAuthorLookups == 3
MaxAuthorTicks == 3
MaxDocs == 2

AuthorNames == {<<"A", "d">>, <<" ", "a", "d", " ">>, <<"E">>}

\* f"author_books:{author_name.lower().strip()}"
AuthorCacheKey(author_name) == <<"author_books:", Strip(Lower(author_name))>>

AuthorCacheKeys == {AuthorCacheKey(a) : a \in AuthorNames}

\* ", ".join(names)
RECURSIVE JoinComma(_)
JoinComma(names) ==
    IF Len(names) = 0 THEN <<>>
    ELSE IF Len(names) = 1 THEN names[1]
    ELSE names[1] \o <<",", " ">> \o JoinComma(Tail(names))

\* isbn_candidate.replace("-", "").replace(" ", "")
CleanCandidate(s) == LET kept(c) == c \notin {"-", " "} IN SelectSeq(s, kept)

\* the first candidate that is 13 digits once cleaned, or None
RECURSIVE PreferredIsbn13(_)
PreferredIsbn13(isbns) ==
    IF Len(isbns) = 0 THEN Nothing
    ELSE LET clean == CleanCandidate(Head(isbns))
         IN  IF Len(clean) = 13 /\ \A i \in 1..13 : StrIsDigit(clean[i])
             THEN Some(clean)
             ELSE PreferredIsbn13(Tail(isbns))

\* f"https://covers.openlibrary.org/b/id/{cover_id}-M.jpg"
AuthorCoverUrl(cover_id) ==
    <<"https://covers.openlibrary.org/b/id/", cover_id, "-M.jpg">>

\* the entry built from one document; a document without a value for a
\* field holds 0 (first_publish_year, cover_i) or the empty list
AuthorEntry(doc, author_name) ==
    [title |-> Strip(doc.title),
     author |-> IF Len(doc.author_name) > 0 THEN JoinComma(doc.author_name)
                ELSE author_name,
     publication_year |-> IF doc.first_publish_year # 0
                          THEN Some(doc.first_publish_year) ELSE Nothing,
     thumbnail_url |-> IF doc.cover_i # 0 THEN AuthorCoverUrl(doc.cover_i)
                       ELSE <<>>,
     isbn13 |-> PreferredIsbn13(doc.isbn),
     publisher |-> IF Len(doc.publisher) > 0 THEN Some(doc.publisher[1])
                   ELSE Nothing,
     description |-> Nothing]

\* b.get("publication_year") or 0
YearOrZero(entry) ==
    IF IsSome(entry.publication_year) THEN The(entry.publication_year) ELSE 0

\* seen_titles after the loop over docs: pairs <<norm_title, entry>> in the
\* order in which the titles were first seen
RECURSIVE SeenTitles(_, _, _)
SeenTitles(docs, author_name, seen) ==
    IF Len(docs) = 0 THEN seen
    ELSE LET doc == Head(docs)
             rest == Tail(docs)
         IN  IF Len(doc.title) = 0 THEN SeenTitles(rest, author_name, seen)
             ELSE LET norm_title == Lower(Strip(doc.title))
                      entry == AuthorEntry(doc, author_name)
                      at == {i \in 1..Len(seen) : seen[i][1] = norm_title}
                  IN  IF at = {}
                      THEN SeenTitles(rest, author_name,
                                      Append(seen, <<norm_title, entry>>))
                      ELSE LET i == CHOOSE j \in at : TRUE
                           IN  IF doc.first_publish_year > YearOrZero(seen[i][2])
                               THEN SeenTitles(rest, author_name,
                                        [seen EXCEPT ![i] = <<norm_title, entry>>])
                               ELSE SeenTitles(rest, author_name, seen)

RECURSIVE InsertByYear(_, _)
InsertByYear(sorted, x) ==
    IF Len(sorted) = 0 THEN <<x>>
    ELSE IF YearOrZero(Head(sorted)) >= YearOrZero(x)
    THEN <<Head(sorted)>> \o InsertByYear(Tail(sorted), x)
    ELSE <<x>> \o sorted

\* sorted(seen_titles.values(), key=..., reverse=True): a stable sort
RECURSIVE SortByYear(_)
SortByYear(seen) ==
    IF Len(seen) = 0 THEN <<>>
    ELSE InsertByYear(SortByYear(SubSeq(seen, 1, Len(seen) - 1)),
                      seen[Len(seen)][2])

\* the documents of the model
AuthorDocs ==
    {[title |-> <<"E">>, first_publish_year |-> 1815, cover_i |-> 7,
      author_name |-> << <<"A", "d">>, <<"C">> >>,
      isbn |-> << <<"9", "7", "8">>, Isbn978Hyphens >>,
      publisher |-> <<"Murray">>],
     [title |-> <<"e", " ">>, first_publish_year |-> 1896, cover_i |-> 0,
      author_name |-> <<>>, isbn |-> <<>>, publisher |-> <<>>],
     [title |-> <<"D">>, first_publish_year |-> 0, cover_i |-> 0,
      author_name |-> << <<"A", "d">> >>, isbn |-> <<Isbn979>>,
      publisher |-> <<>>],
     [title |-> <<>>, first_publish_year |-> 1811, cover_i |-> 9,
      author_name |-> <<>>, isbn |-> <<>>, publisher |-> <<"Egerton">>]}

\* what session.get(OPEN_LIBRARY_SEARCH_API, ...) may bring: the request
\* fails, the status is an error, the body is no JSON, the JSON is no
\* object, the object has no "docs" (or null), the list holds something
\* that is no object, or it is a list of documents
AuthorHttp ==
    {[kind |-> k, docs |-> <<>>] :
        k \in {"conn_error", "status_error", "not_json", "json_scalar",
               "no_docs", "bad_doc"}}
    \cup {[kind |-> "docs", docs |-> d] : d \in ListsOf(AuthorDocs, MaxDocs)}

\* the outcomes on which the try block raises
AuthorHttpFails(http) ==
    http.kind \in {"conn_error", "status_error", "not_json", "json_scalar",
                   "bad_doc"}

\* the write made at the end of the call (a variant that skips it when the
\* request failed)
AuthorCacheSetOnSuccess(kind, rs, key, book_list, failed, t) ==
    IF failed THEN rs
    ELSE HandleSet(kind, rs, key, book_list, Some(AuthorBooksTtl), t)

\* cache.set(cache_key, books, ttl=86400), made whether or not the try
\* block raised
AuthorCacheSet(kind, rs, key, book_list, failed, t) ==
    HandleSet(kind, rs, key, book_list, Some(AuthorBooksTtl), t)

\* lookup_books_by_author(author_name) with the given outcome of the
\* request: the frame of the call and the cache table afterwards
LookupBooksByAuthor(author_name, http, instance, env, rs, t) ==
    LET cache == GetCacheKind(instance, env)
        cache_key == AuthorCacheKey(author_name)
        cached == HandleGet(cache, rs, cache_key, t)
        failed == AuthorHttpFails(http)
        book_list == IF failed THEN <<>>
                 ELSE SortByYear(SeenTitles(http.docs, author_name, <<>>))
    IN  IF IsSome(cached)
        THEN [f |-> [pc |-> "returned", author_name |-> author_name,
                     cache_key |-> cache_key, cache |-> cache, hit |-> TRUE,
                     http |-> "none", failed |-> FALSE, ret |-> The(cached)],
              rows |-> rs]
        ELSE [f |-> [pc |-> "returned", author_name |-> author_name,
                     cache_key |-> cache_key, cache |-> cache, hit |-> FALSE,
                     http |-> http.kind, failed |-> failed, ret |-> book_list],
              rows |-> AuthorCacheSet(cache, rs, cache_key, book_list, failed, t)]

InitAuthor ==
    /\ lk = IdleFrame
    /\ nLookups = 0
    /\ cacheInstance = "None"
    /\ testMode \in {"unset", "1"}
    /\ rows = {}
    /\ rows0 = {}
    /\ now = 0
    /\ lastOp = [op |-> "none"]
    /\ hist = [k \in AuthorCacheKeys |-> Nothing]

authorFrame == <<mergeVars, lastOp, enhanceVars, restVars>>

\* time.time() advances by half the ttl
AuthorTick ==
    /\ now < MaxAuthorTicks * HalfAuthorBooksTtl
    /\ now' = now + HalfAuthorBooksTtl
    /\ UNCHANGED <<lk, nLookups, cacheInstance, testMode, rows, rows0, hist,
                   authorFrame>>

\* a call of lookup_books_by_author; hist keeps, per key, whether the last
\* list written under it came from a failed request
CallLookupBooksByAuthor(author_name, http) ==
    /\ nLookups < MaxAuthorLookups
    /\ nLookups' = nLookups + 1
    /\ \E o \in {LookupBooksByAuthor(author_name, http, cacheInstance,
                                     testMode, rows, now)} :
          /\ lk' = o.f
          /\ rows' = o.rows
          /\ hist' = IF o.f.hit \/ o.f.cache = "NoOp" THEN hist
                     ELSE [hist EXCEPT ![o.f.cache_key] =
                               Some([failed |-> o.f.failed, t |-> now])]
    /\ rows0' = rows
    /\ cacheInstance' = GetCacheInstance(cacheInstance, testMode)
    /\ UNCHANGED <<now, testMode, authorFrame>>

NextAuthor ==
    \/ AuthorTick
    \/ \E a \in AuthorNames, http \in AuthorHttp : CallLookupBooksByAuthor(a, http)

InitSpecAuthor == InitAuthor /\ IdleMerge /\ IdleEnhance /\ IdleRest

SpecAuthor == InitSpecAuthor /\ [][NextAuthor]_vars

\* C30: lookup_books_by_author caches only results it obtained: a call whose
\* search request failed (network error, error status, malformed response)
\* leaves the cache as it was, and a call answered from the cache never
\* returns a list that a failed request left there, so the call after a
\* failure queries the network again.
C30_FailedSearchNotCached ==
    lk.pc = "returned" =>
        /\ lk.failed => rows = rows0
        /\ lk.hit => ~(The(hist[lk.cache_key]).failed)

====
